---- MODULE Spec2Model ----
(***************************************************************************)
(* InvisibleBoundaryEngine v2 (src/Invisibleboundaryengine.js): the        *)
(* per-frame hand-pose evaluator of HandHero.                              *)
(*                                                                         *)
(* Numbers.  Landmark coordinates are integers v standing for the          *)
(* JavaScript number v/64, so that every coordinate and every coordinate   *)
(* difference is exact in IEEE-754 and 1/64 is above the 0.0001 of         *)
(* getYOnLine.  Geometric quantities (distances, quotients of distances)   *)
(* are kept symbolically as square roots of integers and compared with    *)
(* the decimal thresholds exactly; a division by zero gives Infinity or    *)
(* NaN as in JavaScript.  Scores are IEEE-754 doubles: they are kept as    *)
(* natural numbers counting units of 2^-65 and every sum, quotient and     *)
(* product is rounded to 53 significant bits, to nearest, ties to even.    *)
(***************************************************************************)
EXTENDS Integers, Sequences, FiniteSets, TLC

VARIABLES landmarks, exercise, call, first

vars == <<landmarks, exercise, call, first>>

---------------------------------------------------------------------------
(* Natural numbers of any size: little-endian sequences of limbs, each in  *)
(* 0 .. Base-1, without leading zero limbs; << >> is zero.                 *)

LimbBits == 13

Base == 2 ^ LimbBits

RECURSIVE Pow2(_)
Pow2(n) == IF n = 0 THEN 1 ELSE 2 * Pow2(n - 1)

RECURSIVE Norm(_)
Norm(a) ==
    IF a = << >> THEN << >>
    ELSE IF a[Len(a)] = 0 THEN Norm(SubSeq(a, 1, Len(a) - 1))
    ELSE a

Limb(a, i) == IF i <= Len(a) THEN a[i] ELSE 0

RECURSIVE AddFrom(_, _, _, _)
AddFrom(a, b, i, carry) ==
    IF i > Len(a) /\ i > Len(b)
    THEN IF carry = 0 THEN << >> ELSE <<carry>>
    ELSE LET s == Limb(a, i) + Limb(b, i) + carry
         IN  <<s % Base>> \o AddFrom(a, b, i + 1, s \div Base)

BAdd(a, b) == Norm(AddFrom(a, b, 1, 0))

RECURSIVE MulSmallFrom(_, _, _, _)
MulSmallFrom(a, m, i, carry) ==
    IF i > Len(a)
    THEN IF carry = 0 THEN << >> ELSE <<carry % Base>> \o
                                      (IF carry \div Base = 0 THEN << >>
                                       ELSE <<carry \div Base>>)
    ELSE LET s == a[i] * m + carry
         IN  <<s % Base>> \o MulSmallFrom(a, m, i + 1, s \div Base)

(* a * m for a small m (m < 2^17) *)
BMulSmall(a, m) == Norm(MulSmallFrom(a, m, 1, 0))

Zeros(n) == [i \in 1..n |-> 0]

(* a * Base^n *)
ShiftLimbs(a, n) == IF a = << >> THEN << >> ELSE Zeros(n) \o a

RECURSIVE MulFrom(_, _, _)
MulFrom(a, b, i) ==
    IF i > Len(b) THEN << >>
    ELSE BAdd(ShiftLimbs(BMulSmall(a, b[i]), i - 1), MulFrom(a, b, i + 1))

BMul(a, b) == MulFrom(a, b, 1)

RECURSIVE DivSmallFrom(_, _, _, _)
DivSmallFrom(a, k, i, rem) ==
    IF i = 0 THEN [q |-> << >>, r |-> rem]
    ELSE LET rest == DivSmallFrom(a, k, i - 1, (rem * Base + a[i]) % k)
         IN  [q |-> rest.q \o <<(rem * Base + a[i]) \div k>>, r |-> rest.r]

(* quotient and remainder of a by a small k (k <= 2^13) *)
BDivSmall(a, k) ==
    LET d == DivSmallFrom(a, k, Len(a), 0) IN [q |-> Norm(d.q), r |-> d.r]

RECURSIVE CmpFrom(_, _, _)
CmpFrom(a, b, i) ==
    IF i = 0 THEN 0
    ELSE IF a[i] > b[i] THEN 1
    ELSE IF a[i] < b[i] THEN -1
    ELSE CmpFrom(a, b, i - 1)

(* -1, 0, 1 as a < b, a = b, a > b *)
BCmp(a, b) ==
    IF Len(a) > Len(b) THEN 1
    ELSE IF Len(a) < Len(b) THEN -1
    ELSE CmpFrom(a, b, Len(a))

RECURSIVE SmallBitLen(_)
SmallBitLen(n) == IF n = 0 THEN 0 ELSE 1 + SmallBitLen(n \div 2)

BitLen(a) ==
    IF a = << >> THEN 0 ELSE LimbBits * (Len(a) - 1) + SmallBitLen(a[Len(a)])

(* floor(a / 2^n), and whether a nonzero part was dropped *)
ShiftRight(a, n) ==
    LET w == IF n \div LimbBits < Len(a) THEN n \div LimbBits ELSE Len(a)
        d == BDivSmall(SubSeq(a, w + 1, Len(a)), Pow2(n % LimbBits))
    IN  [q      |-> d.q,
         sticky |-> d.r # 0 \/ (\E i \in 1..w : a[i] # 0)]

(* a * 2^n *)
ShiftLeft(a, n) ==
    ShiftLimbs(BMulSmall(a, Pow2(n % LimbBits)), n \div LimbBits)

---------------------------------------------------------------------------
(* IEEE-754 doubles in [2^-7, 2^12) and zero, as naturals in units of      *)
(* 2^-65 (five limbs).                                                     *)

Mantissa == 53

UnitLimbs == 5

(* s.q / 2, plus a nonzero fraction when sticky or s.sticky, rounded to    *)
(* the nearest integer, ties to even, times 2^drop                         *)
Nearest(s, sticky, drop) ==
    ShiftLeft(IF s.q[1] % 2 = 1
                 /\ (sticky \/ s.sticky \/ (s.q[1] \div 2) % 2 = 1)
              THEN BAdd(BDivSmall(s.q, 2).q, <<1>>)
              ELSE BDivSmall(s.q, 2).q, drop)

(* a, plus a nonzero fraction when sticky, rounded to 53 significant bits: *)
(* to nearest, ties to even                                                *)
Round53(a, sticky) ==
    IF BitLen(a) <= Mantissa THEN a
    ELSE Nearest(ShiftRight(a, BitLen(a) - Mantissa - 1), sticky,
                 BitLen(a) - Mantissa)

(* floor(r / Base^n) *)
DropLimbs(r, n) == IF r = << >> THEN << >> ELSE SubSeq(r, n + 1, Len(r))

(* the double written as the decimal literal h/100 *)
Lit(h) ==
    LET d == BDivSmall(ShiftLimbs(Norm(<<h>>), UnitLimbs), 100)
    IN  Round53(d.q, d.r # 0)

FAdd(x, y) == Round53(BAdd(x, y), FALSE)

(* x / k for a small integer k *)
FDivInt(x, k) ==
    LET d == BDivSmall(ShiftLimbs(x, 1), k)
    IN  DropLimbs(Round53(d.q, d.r # 0), 1)

FMul(x, y) ==
    DropLimbs(Round53(BMul(x, y), FALSE), UnitLimbs)

FGe(x, y) == BCmp(x, y) >= 0

FGt(x, y) == BCmp(x, y) > 0

FEq(x, y) == BCmp(x, y) = 0

---------------------------------------------------------------------------
(* Node mappings                                                           *)

FINGER_NODES ==
    [f \in 0..4 |->
        CASE f = 0 -> [name |-> "thumb",  mcp |-> 1,  pip |-> 2,  dip |-> 3,  tip |-> 4]
          [] f = 1 -> [name |-> "index",  mcp |-> 5,  pip |-> 6,  dip |-> 7,  tip |-> 8]
          [] f = 2 -> [name |-> "middle", mcp |-> 9,  pip |-> 10, dip |-> 11, tip |-> 12]
          [] f = 3 -> [name |-> "ring",   mcp |-> 13, pip |-> 14, dip |-> 15, tip |-> 16]
          [] f = 4 -> [name |-> "pinky",  mcp |-> 17, pip |-> 18, dip |-> 19, tip |-> 20]]

(* FINGER_NAMES[i] of the source is FINGER_NAMES[i + 1] here *)
FINGER_NAMES == <<"thumb", "index", "middle", "ring", "pinky">>

ALL_TIPS == <<4, 8, 12, 16, 20>>

ZONE == [GREEN |-> "GREEN", BLUE |-> "BLUE", YELLOW |-> "YELLOW", RED |-> "RED"]

---------------------------------------------------------------------------
(* Landmarks.  A landmark array is [missing, pts]: missing is a null or    *)
(* undefined argument, pts maps 0 .. length-1 to the entries.  An entry is *)
(* a point {x, y, z} (kind "pt"), an object without coordinates (kind      *)
(* "empty": its x and y read as undefined and every arithmetic on them is  *)
(* NaN) or undefined (kind "undef": reading a property of it throws a      *)
(* TypeError).  The coordinates x, y, z of an entry are integers that      *)
(* stand for the numbers x / (64 * shrink), y / (64 * shrink) and          *)
(* z / (64 * shrink); the entries of one array have the same shrink, which *)
(* is 1 but for a hand that is scaled down.                                *)

Pt(x, y, z) == [kind |-> "pt", x |-> x, y |-> y, z |-> z, shrink |-> 1]

EmptyObj == [kind |-> "empty", x |-> 0, y |-> 0, z |-> 0, shrink |-> 1]

Undef == [kind |-> "undef", x |-> 0, y |-> 0, z |-> 0, shrink |-> 1]

Length(lm) == Cardinality(DOMAIN lm.pts)

(* landmarks[i]: undefined beyond the end of the array *)
At(lm, i) == IF i \in DOMAIN lm.pts THEN lm.pts[i] ELSE Undef

HasXY(p) == p.kind = "pt"

(* some landmark among the indices in s is undefined *)
AnyUndef(lm, s) == \E i \in s : At(lm, i).kind = "undef"

---------------------------------------------------------------------------
(* Numbers of the geometry.                                                *)
(*   Dist  [nan, sq]            the distance sqrt(sq), or NaN              *)
(*   Val   [nan, sgn, p2, q2]   sgn * sqrt(p2 / q2), or NaN; q2 = 0 is a   *)
(*                              division by zero: Infinity when p2 > 0,    *)
(*                              NaN when p2 = 0                            *)

Sgn(a) == IF a > 0 THEN 1 ELSE IF a < 0 THEN -1 ELSE 0

(* the sign of A + B * sqrt(W), for integers A, B and W >= 0 *)
Sign(A, B, W) ==
    IF B = 0 \/ W = 0 THEN Sgn(A)
    ELSE IF A = 0 THEN Sgn(B)
    ELSE IF Sgn(A) = Sgn(B) THEN Sgn(A)
    ELSE IF A * A > B * B * W THEN Sgn(A)
    ELSE IF A * A < B * B * W THEN Sgn(B)
    ELSE 0

NaNDist == [nan |-> TRUE, sq |-> 0]

distance(p1, p2) ==
    IF HasXY(p1) /\ HasXY(p2)
    THEN [nan |-> FALSE,
          sq  |-> (p1.x - p2.x) * (p1.x - p2.x) + (p1.y - p2.y) * (p1.y - p2.y)
                  + (p1.z - p2.z) * (p1.z - p2.z)]
    ELSE NaNDist

(* d1 / d2 *)
Div(d1, d2) ==
    [nan |-> d1.nan \/ d2.nan,
     sgn |-> IF d1.sq = 0 THEN 0 ELSE 1,
     p2  |-> d1.sq,
     q2  |-> d2.sq]

(* a / d for a coordinate difference a, which is NaN when nan *)
DivDiff(a, nan, d) ==
    [nan |-> nan \/ d.nan, sgn |-> Sgn(a), p2 |-> a * a, q2 |-> d.sq]

(* v > c/100 *)
GT(v, c) ==
    IF v.nan THEN FALSE
    ELSE IF v.q2 = 0 THEN v.sgn > 0 /\ v.p2 > 0
    ELSE IF c >= 0 THEN v.sgn > 0 /\ 10000 * v.p2 > c * c * v.q2
    ELSE v.sgn >= 0 \/ 10000 * v.p2 < c * c * v.q2

(* v < c/100 *)
LT(v, c) ==
    IF v.nan THEN FALSE
    ELSE IF v.q2 = 0 THEN v.sgn < 0 /\ v.p2 > 0
    ELSE IF c <= 0 THEN v.sgn < 0 /\ 10000 * v.p2 > c * c * v.q2
    ELSE v.sgn <= 0 \/ 10000 * v.p2 < c * c * v.q2

---------------------------------------------------------------------------
(* Get hand reference frame for normalization.  palmCenter keeps the sums  *)
(* of the five coordinates: palmCenter.x = sx / 5, palmCenter.y = sy / 5.  *)

HandFrameNodes == {0, 5, 9, 12, 13, 17}

getHandFrame(lm) ==
    LET wrist     == At(lm, 0)
        middleTip == At(lm, 12)
        indexMcp  == At(lm, 5)
        pinkyMcp  == At(lm, 17)
        middleMcp == At(lm, 9)
        ringMcp   == At(lm, 13)
    IN  [wrist      |-> wrist,
         handLength |-> distance(wrist, middleTip),
         handWidth  |-> distance(indexMcp, pinkyMcp),
         palmCenter |->
            [nan |-> \E p \in {wrist, indexMcp, middleMcp, ringMcp, pinkyMcp} :
                        ~HasXY(p),
             sx  |-> wrist.x + indexMcp.x + middleMcp.x + ringMcp.x + pinkyMcp.x,
             sy  |-> wrist.y + indexMcp.y + middleMcp.y + ringMcp.y + pinkyMcp.y]]

(* distance(p, frame.palmCenter): palmCenter has no z, so p.z counts whole *)
distanceToPalm(p, palmCenter) ==
    IF HasXY(p) /\ ~palmCenter.nan
    THEN [nan |-> FALSE,
          sq25 |-> (5 * p.x - palmCenter.sx) * (5 * p.x - palmCenter.sx)
                   + (5 * p.y - palmCenter.sy) * (5 * p.y - palmCenter.sy)
                   + 25 * p.z * p.z]
    ELSE [nan |-> TRUE, sq25 |-> 0]

---------------------------------------------------------------------------
(* Boundary lines.  An end point of a line is [undef, nan, x, k, w, y]:    *)
(* the point (x + (k/2) * sqrt(w), y), where sqrt(w) is frame.handWidth;   *)
(* nan when a coordinate is NaN, undef when the end point is undefined.    *)

LinePoint(x, k, hw, y, nan) ==
    [undef |-> FALSE, nan |-> nan \/ (k # 0 /\ hw.nan), x |-> x, k |-> k,
     w |-> hw.sq, y |-> y]

(* a landmark used as the end point of a line *)
LandmarkPoint(p) ==
    [undef |-> p.kind = "undef", nan |-> ~HasXY(p), x |-> p.x, k |-> 0,
     w |-> 0, y |-> p.y]

(* Math.abs(lineEnd.x - lineStart.x) < 0.0001 of getYOnLine.  With         *)
(* r = sqrt(w), lineEnd.x - lineStart.x is (dx2 + dk * r) / (128 * shrink) *)
(* and the test is 625 * |dx2 + dk * r| < 8 * shrink; for shrink = 1 it is *)
(* lineEnd.x = lineStart.x.  The lines of the engine have dk = 0 (between  *)
(* two landmarks) or dx2 = 0 (about one joint).                            *)
nearVertical(dx2, dk, w, shrink) ==
    IF dk = 0 \/ w = 0
    THEN 625 * (IF dx2 < 0 THEN 0 - dx2 ELSE dx2) < 8 * shrink
    ELSE IF dx2 = 0
    THEN dk * dk * w <= (64 * shrink * shrink - 1) \div 390625
    ELSE /\ Sign(625 * dx2 + 8 * shrink, 625 * dk, w) > 0
         /\ Sign(625 * dx2 - 8 * shrink, 625 * dk, w) < 0

(* Check if point is above line (lower Y = above in screen coords).        *)
(* getYOnLine: the line is taken as the constant (start.y + end.y) / 2     *)
(* when |end.x - start.x| < 0.0001; else y = start.y + slope *             *)
(* (x - start.x).  With r = sqrt(w), dx2 + dk * r is twice end.x - start.x *)
(* and px2 + pk * r is twice point.x - start.x, in units of                *)
(* 1 / (64 * shrink).                                                      *)
isAboveLine(point, lineStart, lineEnd) ==
    LET w   == IF lineStart.k # 0 THEN lineStart.w ELSE lineEnd.w
        dx2 == 2 * (lineEnd.x - lineStart.x)
        dk  == lineEnd.k - lineStart.k
        dy  == lineEnd.y - lineStart.y
        px2 == 2 * (point.x - lineStart.x)
        pk  == 0 - lineStart.k
        py  == point.y - lineStart.y
    IN  IF ~HasXY(point) \/ lineStart.nan \/ lineEnd.nan THEN FALSE
        ELSE IF nearVertical(dx2, dk, w, point.shrink)
             THEN 2 * point.y < lineStart.y + lineEnd.y
        ELSE Sign(py * dx2 - dy * px2, py * dk - dy * pk, w)
             * Sign(dx2, dk, w) < 0

---------------------------------------------------------------------------
(* Dynamic boundary creation                                               *)

(* A faulty variant of boundaryLine: the line runs from the joint to one   *)
(* side only.                                                              *)
oneSidedLine(joint, handWidth, level, referenceNode) ==
    [start |-> LinePoint(joint.x, 0, handWidth, joint.y, ~HasXY(joint)),
     end   |-> LinePoint(joint.x, 3, handWidth, joint.y, ~HasXY(joint)),
     level |-> level, referenceNode |-> referenceNode]

(* Create boundary lines for a specific target finger: GREEN at the PIP    *)
(* level, ACCEPTABLE at the DIP level, LOW at the MCP level, each from     *)
(* joint.x - lineExtent to joint.x + lineExtent, lineExtent being          *)
(* frame.handWidth * 1.5, that is 3 half hand widths.                      *)
boundaryLine(joint, handWidth, level, referenceNode) ==
    [start |-> LinePoint(joint.x, -3, handWidth, joint.y, ~HasXY(joint)),
     end   |-> LinePoint(joint.x, 3, handWidth, joint.y, ~HasXY(joint)),
     level |-> level, referenceNode |-> referenceNode]

(* A faulty variant of createBoundaryForFinger: the GREEN line is at the   *)
(* DIP level and the ACCEPTABLE line at the PIP level.                     *)
boundarySwapped(fingerIdx, lm, frame) ==
    [greenBoundary |->
        boundaryLine(At(lm, FINGER_NODES[fingerIdx].dip), frame.handWidth,
                     "GREEN", FINGER_NODES[fingerIdx].dip),
     acceptableBoundary |->
        boundaryLine(At(lm, FINGER_NODES[fingerIdx].pip), frame.handWidth,
                     "ACCEPTABLE", FINGER_NODES[fingerIdx].pip),
     lowBoundary |->
        boundaryLine(At(lm, FINGER_NODES[fingerIdx].mcp), frame.handWidth,
                     "LOW", FINGER_NODES[fingerIdx].mcp)]

createBoundaryForFinger(fingerIdx, lm, frame) ==
    LET nodes == FINGER_NODES[fingerIdx]
    IN  [greenBoundary |->
            boundaryLine(At(lm, nodes.pip), frame.handWidth, "GREEN", nodes.pip),
         acceptableBoundary |->
            boundaryLine(At(lm, nodes.dip), frame.handWidth, "ACCEPTABLE",
                         nodes.dip),
         lowBoundary |->
            boundaryLine(At(lm, nodes.mcp), frame.handWidth, "LOW", nodes.mcp)]

(* A faulty variant of sortedTargets: the targets are taken in the order   *)
(* they were given.                                                        *)
targetsAsGiven(targetFingers) == targetFingers

(* [...targetFingers].sort((a, b) => a - b) *)
sortedTargets(targetFingers) == SortSeq(targetFingers, LAMBDA a, b : a < b)

(* Create boundaries for multiple target fingers: the lines join the       *)
(* joints of the outermost targets, which are the landmarks themselves.    *)
createBoundariesForTargets(targetFingers, lm, frame) ==
    IF Len(targetFingers) = 0 THEN createBoundaryForFinger(2, lm, frame)
    ELSE IF Len(targetFingers) = 1
         THEN createBoundaryForFinger(targetFingers[1], lm, frame)
    ELSE LET sorted     == sortedTargets(targetFingers)
             leftNodes  == FINGER_NODES[sorted[1]]
             rightNodes == FINGER_NODES[sorted[Len(sorted)]]
         IN  [greenBoundary |->
                 [start |-> LandmarkPoint(At(lm, leftNodes.pip)),
                  end   |-> LandmarkPoint(At(lm, rightNodes.pip)),
                  level |-> "GREEN"],
              acceptableBoundary |->
                 [start |-> LandmarkPoint(At(lm, leftNodes.dip)),
                  end   |-> LandmarkPoint(At(lm, rightNodes.dip)),
                  level |-> "ACCEPTABLE"],
              lowBoundary |->
                 [start |-> LandmarkPoint(At(lm, leftNodes.mcp)),
                  end   |-> LandmarkPoint(At(lm, rightNodes.mcp)),
                  level |-> "LOW"]]

(* createBoundariesForTargets reads a property of an undefined landmark:   *)
(* only createBoundaryForFinger reads the joints (pip.x, dip.x, mcp.x)     *)
createBoundariesThrow(targetFingers, lm) ==
    /\ Len(targetFingers) <= 1
    /\ LET f     == IF Len(targetFingers) = 0 THEN 2 ELSE targetFingers[1]
           nodes == FINGER_NODES[f]
       IN  AnyUndef(lm, {nodes.pip, nodes.dip, nodes.mcp})

---------------------------------------------------------------------------
(* Finger evaluation                                                       *)

(* Math.min(1.0, 0.85 + normalizedExtension) in the branch that has        *)
(* normalizedExtension > 0.15: 0.85 + e is at least 1.0 for every double   *)
(* e > 0.15 (0.85 plus the double that follows 0.15 rounds to 1.0) and for *)
(* e = Infinity, so the minimum is 1.0.                                    *)
fullyExtendedScore(normalizedExtension) == Lit(100)

(* A faulty variant of extensionZone: one signal is enough for a tier. *)
extensionZoneEither(normalizedExtension, extensionRatio) ==
    IF GT(normalizedExtension, 15) \/ GT(extensionRatio, 130)
    THEN [zone |-> ZONE.GREEN, score |-> fullyExtendedScore(normalizedExtension),
          extended |-> TRUE, detail |-> "fully extended"]
    ELSE IF GT(normalizedExtension, 8) \/ GT(extensionRatio, 115)
    THEN [zone |-> ZONE.BLUE, score |-> Lit(75),
          extended |-> TRUE, detail |-> "well extended"]
    ELSE IF GT(normalizedExtension, 2) \/ GT(extensionRatio, 100)
    THEN [zone |-> ZONE.YELLOW, score |-> Lit(55),
          extended |-> TRUE, detail |-> "partially extended"]
    ELSE IF GT(normalizedExtension, -5)
    THEN [zone |-> ZONE.YELLOW, score |-> Lit(40),
          extended |-> FALSE, detail |-> "minimal extension"]
    ELSE [zone |-> ZONE.RED, score |-> Lit(20),
          extended |-> FALSE, detail |-> "not extended"]

(* the zones of evaluateTargetFinger *)
extensionZone(normalizedExtension, extensionRatio) ==
    IF GT(normalizedExtension, 15) /\ GT(extensionRatio, 130)
    THEN [zone |-> ZONE.GREEN, score |-> fullyExtendedScore(normalizedExtension),
          extended |-> TRUE, detail |-> "fully extended"]
    ELSE IF GT(normalizedExtension, 8) /\ GT(extensionRatio, 115)
    THEN [zone |-> ZONE.BLUE, score |-> Lit(75),
          extended |-> TRUE, detail |-> "well extended"]
    ELSE IF GT(normalizedExtension, 2) /\ GT(extensionRatio, 100)
    THEN [zone |-> ZONE.YELLOW, score |-> Lit(55),
          extended |-> TRUE, detail |-> "partially extended"]
    ELSE IF GT(normalizedExtension, -5)
    THEN [zone |-> ZONE.YELLOW, score |-> Lit(40),
          extended |-> FALSE, detail |-> "minimal extension"]
    ELSE [zone |-> ZONE.RED, score |-> Lit(20),
          extended |-> FALSE, detail |-> "not extended"]

(* Check if a TARGET finger is properly extended *)
evaluateTargetFinger(fingerIdx, lm, frame) ==
    LET tip == At(lm, FINGER_NODES[fingerIdx].tip)
        mcp == At(lm, FINGER_NODES[fingerIdx].mcp)
        tipAboveMcp == mcp.y - tip.y
        tipToWrist  == distance(tip, At(lm, 0))
        mcpToWrist  == distance(mcp, At(lm, 0))
    IN  extensionZone(
            (* normalizedExtension *)
            DivDiff(tipAboveMcp, ~HasXY(mcp) \/ ~HasXY(tip), frame.handLength),
            (* extensionRatio *)
            Div(tipToWrist, mcpToWrist))

(* the landmarks evaluateTargetFinger reads a property of: dip.y and pip.y *)
(* are read although tipAboveDip and tipAbovePip are not used              *)
targetFingerNodes(fingerIdx) ==
    LET nodes == FINGER_NODES[fingerIdx]
    IN  {nodes.tip, nodes.dip, nodes.pip, nodes.mcp, 0}

(* A faulty variant of safeZone: a tip between the two lines is a minor    *)
(* violation.                                                              *)
safeZoneMinor(aboveGreen, aboveAcceptable) ==
    IF aboveGreen
    THEN [zone |-> ZONE.RED, score |-> Lit(30), inSafeZone |-> FALSE,
          violation |-> TRUE, severity |-> "major",
          detail |-> "finger extended into target zone"]
    ELSE IF aboveAcceptable
    THEN [zone |-> ZONE.YELLOW, score |-> Lit(70), inSafeZone |-> TRUE,
          violation |-> TRUE, severity |-> "minor",
          detail |-> "finger slightly raised but acceptable"]
    ELSE [zone |-> ZONE.GREEN, score |-> Lit(100), inSafeZone |-> TRUE,
          violation |-> FALSE, severity |-> "none",
          detail |-> "in safe zone"]

(* A faulty variant of safeZone: a tip above the ACCEPTABLE line is a      *)
(* violation as well.                                                      *)
safeZoneStrict(aboveGreen, aboveAcceptable) ==
    IF aboveGreen \/ aboveAcceptable
    THEN [zone |-> ZONE.RED, score |-> Lit(30), inSafeZone |-> FALSE,
          violation |-> TRUE, severity |-> "major",
          detail |-> "finger extended into target zone"]
    ELSE [zone |-> ZONE.GREEN, score |-> Lit(100), inSafeZone |-> TRUE,
          violation |-> FALSE, severity |-> "none",
          detail |-> "in safe zone"]

(* the zones of evaluateNonTargetFinger *)
safeZone(aboveGreen, aboveAcceptable) ==
    IF aboveGreen
    THEN [zone |-> ZONE.RED, score |-> Lit(30), inSafeZone |-> FALSE,
          violation |-> TRUE, severity |-> "major",
          detail |-> "finger extended into target zone"]
    ELSE IF aboveAcceptable
    THEN [zone |-> ZONE.YELLOW, score |-> Lit(70), inSafeZone |-> TRUE,
          violation |-> FALSE, severity |-> "none",
          detail |-> "finger slightly raised but acceptable"]
    ELSE [zone |-> ZONE.GREEN, score |-> Lit(100), inSafeZone |-> TRUE,
          violation |-> FALSE, severity |-> "none",
          detail |-> "in safe zone"]

(* A faulty variant of evaluateNonTargetFinger: the tip is tested against  *)
(* the LOW line where the GREEN line is meant.                             *)
evaluateAgainstLow(fingerIdx, lm, boundaries, frame) ==
    LET tip == At(lm, FINGER_NODES[fingerIdx].tip)
    IN  safeZone(
            isAboveLine(tip, boundaries.lowBoundary.start,
                        boundaries.lowBoundary.end),
            isAboveLine(tip, boundaries.acceptableBoundary.start,
                        boundaries.acceptableBoundary.end))

(* Check if a NON-TARGET finger is in the safe zone *)
evaluateNonTargetFinger(fingerIdx, lm, boundaries, frame) ==
    LET tip == At(lm, FINGER_NODES[fingerIdx].tip)
    IN  safeZone(
            (* aboveGreen *)
            isAboveLine(tip, boundaries.greenBoundary.start,
                        boundaries.greenBoundary.end),
            (* aboveAcceptable *)
            isAboveLine(tip, boundaries.acceptableBoundary.start,
                        boundaries.acceptableBoundary.end))

(* evaluateNonTargetFinger reads point.x of the tip and lineStart.x,       *)
(* lineEnd.x of the GREEN and the ACCEPTABLE line                          *)
nonTargetFingerThrows(fingerIdx, lm, boundaries) ==
    \/ AnyUndef(lm, {FINGER_NODES[fingerIdx].tip})
    \/ boundaries.greenBoundary.start.undef
    \/ boundaries.greenBoundary.end.undef
    \/ boundaries.acceptableBoundary.start.undef
    \/ boundaries.acceptableBoundary.end.undef

(* Thumb IS the target - measure extension *)
thumbExtensionZone(extensionRatio, thumbAwayFromPalm) ==
    IF GT(extensionRatio, 140) /\ GT(thumbAwayFromPalm, 40)
    THEN [zone |-> ZONE.GREEN, score |-> Lit(100), pass |-> TRUE,
          detail |-> "thumb fully extended"]
    ELSE IF GT(extensionRatio, 120) /\ GT(thumbAwayFromPalm, 30)
    THEN [zone |-> ZONE.BLUE, score |-> Lit(75), pass |-> TRUE,
          detail |-> "thumb well extended"]
    ELSE IF GT(extensionRatio, 100)
    THEN [zone |-> ZONE.YELLOW, score |-> Lit(50), pass |-> TRUE,
          detail |-> "thumb partially extended"]
    ELSE [zone |-> ZONE.RED, score |-> Lit(25), pass |-> FALSE,
          detail |-> "thumb not extended"]

(* A faulty variant of thumbSafeZone: an extended thumb is a violation. *)
thumbStrictZone(thumbPastIndex, thumbVeryExtended) ==
    IF thumbPastIndex /\ thumbVeryExtended
    THEN [zone |-> ZONE.RED, score |-> Lit(30), inSafeZone |-> FALSE,
          violation |-> TRUE, severity |-> "major",
          detail |-> "thumb extended into target zone"]
    ELSE [zone |-> ZONE.GREEN, score |-> Lit(100), inSafeZone |-> TRUE,
          violation |-> FALSE, ignored |-> TRUE,
          detail |-> "thumb in safe zone (lenient)"]

(* Thumb is NOT target - MAXIMUM LENIENCY *)
thumbSafeZone(thumbPastIndex, thumbVeryExtended) ==
    IF thumbPastIndex /\ thumbVeryExtended
    THEN [zone |-> ZONE.YELLOW, score |-> Lit(80), inSafeZone |-> TRUE,
          violation |-> FALSE, detail |-> "thumb extended but acceptable"]
    ELSE [zone |-> ZONE.GREEN, score |-> Lit(100), inSafeZone |-> TRUE,
          violation |-> FALSE, ignored |-> TRUE,
          detail |-> "thumb in safe zone (lenient)"]

(* Special handling for THUMB *)
evaluateThumb(lm, frame, isTarget) ==
    LET thumbTip == At(lm, 4)
        thumbMcp == At(lm, 2)
        indexMcp == At(lm, 5)
        wrist    == At(lm, 0)
        tipToWrist == distance(thumbTip, wrist)
        mcpToWrist == distance(thumbMcp, wrist)
        toPalm     == distanceToPalm(thumbTip, frame.palmCenter)
    IN  IF isTarget
        THEN thumbExtensionZone(
                 (* extensionRatio *)
                 Div(tipToWrist, mcpToWrist),
                 (* thumbAwayFromPalm:                                     *)
                 (* distance(thumbTip, frame.palmCenter) / frame.handWidth *)
                 [nan |-> toPalm.nan \/ frame.handWidth.nan,
                  sgn |-> IF toPalm.sq25 = 0 THEN 0 ELSE 1,
                  p2  |-> toPalm.sq25,
                  q2  |-> 25 * frame.handWidth.sq])
        ELSE thumbSafeZone(
                 (* thumbPastIndex:                                  *)
                 (* thumbTip.x < indexMcp.x - frame.handWidth * 0.3  *)
                 /\ HasXY(thumbTip) /\ HasXY(indexMcp)
                 /\ ~frame.handWidth.nan
                 /\ Sign(10 * (indexMcp.x - thumbTip.x), -3,
                         frame.handWidth.sq) > 0,
                 (* thumbVeryExtended:                               *)
                 (* distance(thumbTip, wrist) > frame.handLength * 0.6 *)
                 /\ ~tipToWrist.nan /\ ~frame.handLength.nan
                 /\ 100 * tipToWrist.sq > 36 * frame.handLength.sq)

(* the landmarks evaluateThumb reads a property of (thumbIp is not read) *)
thumbNodes(isTarget) == IF isTarget THEN {4, 2, 0} ELSE {4, 5, 0}

---------------------------------------------------------------------------
(* Main evaluation functions                                               *)

Includes(seq, v) == \E i \in 1..Len(seq) : seq[i] = v

(* seq.filter(f => f !== 0) *)
withoutThumb(seq) == SelectSeq(seq, LAMBDA f : f # 0)

(* result.finger = ...; result.fingerIndex = i; result.isTarget = ... *)
Tagged(result, i, isTarget) ==
    [finger |-> FINGER_NAMES[i + 1], fingerIndex |-> i, isTarget |-> isTarget]
        @@ result

(* sum = 0; for each score: sum += score *)
RECURSIVE SumScores(_, _)
SumScores(rs, n) ==
    IF n = 0 THEN << >> ELSE FAdd(SumScores(rs, n - 1), rs[n].score)

(* A faulty variant of newResults: the targets array is kept between the   *)
(* calls, so a call starts from the targets of the first call.             *)
staleResults ==
    [targets |-> IF "value" \in DOMAIN first /\ ~first.threw
                    /\ "targets" \in DOMAIN first.value
                 THEN first.value.targets ELSE << >>,
     nonTargets |-> << >>, thumb |-> "null",
     violations |-> << >>, overallZone |-> ZONE.RED, overallScore |-> << >>,
     passed |-> FALSE]

(* the results object evaluateIsolation starts from *)
newResults ==
    [targets |-> << >>, nonTargets |-> << >>, thumb |-> "null",
     violations |-> << >>, overallZone |-> ZONE.RED, overallScore |-> << >>,
     passed |-> FALSE]

(* A faulty variant of isolationBoundaries: the thumb stays in the target  *)
(* set the boundaries are built from.                                      *)
boundariesWithThumb(lm, targetFingers) ==
    createBoundariesForTargets(targetFingers, lm, getHandFrame(lm))

(* the boundaries evaluateIsolation tests the non-target fingers against:  *)
(* the thumb is excluded from boundary creation                            *)
isolationBoundaries(lm, targetFingers) ==
    createBoundariesForTargets(withoutThumb(targetFingers), lm, getHandFrame(lm))

(* A faulty variant of average: the sum of the scores is not divided. *)
sumOnly(targetScoreSum, targetCount) == targetScoreSum

(* A faulty variant of average: no target counts as a full score. *)
averageOrFull(targetScoreSum, targetCount) ==
    IF targetCount > 0 THEN FDivInt(targetScoreSum, targetCount) ELSE Lit(100)

(* targetCount > 0 ? targetScoreSum / targetCount : 0 *)
average(targetScoreSum, targetCount) ==
    IF targetCount > 0 THEN FDivInt(targetScoreSum, targetCount) ELSE << >>

hasMajorViolation(violations) ==
    \E n \in 1..Len(violations) : violations[n].severity = "major"

(* A faulty variant of penalised: a major violation costs what a minor one *)
(* does.                                                                   *)
penalisedLightly(avgScore, violations) ==
    IF Len(violations) > 0 THEN FMul(avgScore, Lit(85)) ELSE avgScore

(* Apply violation penalty *)
penalised(avgScore, violations) ==
    IF hasMajorViolation(violations) THEN FMul(avgScore, Lit(50))
    ELSE IF Len(violations) > 0 THEN FMul(avgScore, Lit(85))
    ELSE avgScore

(* Determine zone: if (score >= green) GREEN; else if (score >= blue) BLUE; *)
(* else if (score >= yellow) YELLOW; else RED, the thresholds being given  *)
(* in hundredths                                                           *)
scoreZone(score, green, blue, yellow) ==
    IF FGe(score, Lit(green)) THEN ZONE.GREEN
    ELSE IF FGe(score, Lit(blue)) THEN ZONE.BLUE
    ELSE IF FGe(score, Lit(yellow)) THEN ZONE.YELLOW
    ELSE ZONE.RED

(* the fingers 1 .. 4 that are targets (isTarget) or are not *)
fingersWhere(targetFingers, isTarget) ==
    SelectSeq(<<1, 2, 3, 4>>, LAMBDA i : Includes(targetFingers, i) = isTarget)

(* results.violations.push({finger, fingerIndex, severity}) for each       *)
(* non-target result with result.violation                                 *)
violationsOf(violating) ==
    [n \in 1..Len(violating) |->
        [finger      |-> violating[n].finger,
         fingerIndex |-> violating[n].fingerIndex,
         severity    |-> violating[n].severity]]

(* Evaluate each finger: the thumb, the targets and the non-targets *)
isolationFingers(lm, targetFingers, frame, boundaries, results) ==
    [results EXCEPT
        !.thumb = Tagged(evaluateThumb(lm, frame, Includes(targetFingers, 0)),
                         0, Includes(targetFingers, 0)),
        !.targets = @ \o
            [n \in 1..Len(fingersWhere(targetFingers, TRUE)) |->
                Tagged(evaluateTargetFinger(fingersWhere(targetFingers, TRUE)[n],
                                            lm, frame),
                       fingersWhere(targetFingers, TRUE)[n], TRUE)],
        !.nonTargets = @ \o
            [n \in 1..Len(fingersWhere(targetFingers, FALSE)) |->
                Tagged(evaluateNonTargetFinger(
                           fingersWhere(targetFingers, FALSE)[n], lm,
                           boundaries, frame),
                       fingersWhere(targetFingers, FALSE)[n], FALSE)]]

(* A faulty variant of isolationOverall: the exercise is passed from the   *)
(* score of the YELLOW zone on.                                            *)
isolationOverallLenient(results, avgScore, allTargetsOk) ==
    [results EXCEPT
        !.overallScore = avgScore,
        !.overallZone  = IF FGe(avgScore, Lit(85)) THEN ZONE.GREEN
                         ELSE IF FGe(avgScore, Lit(65)) THEN ZONE.BLUE
                         ELSE IF FGe(avgScore, Lit(40)) THEN ZONE.YELLOW
                         ELSE ZONE.RED,
        !.passed = allTargetsOk /\ ~hasMajorViolation(results.violations)
                   /\ FGe(avgScore, Lit(40))]

(* A faulty variant of isolationOverall: a target that is not extended     *)
(* does not fail the exercise.                                             *)
isolationOverallLax(results, avgScore, allTargetsOk) ==
    [results EXCEPT
        !.overallScore = avgScore,
        !.overallZone  = IF FGe(avgScore, Lit(85)) THEN ZONE.GREEN
                         ELSE IF FGe(avgScore, Lit(65)) THEN ZONE.BLUE
                         ELSE IF FGe(avgScore, Lit(40)) THEN ZONE.YELLOW
                         ELSE ZONE.RED,
        !.passed = ~hasMajorViolation(results.violations)
                   /\ FGe(avgScore, Lit(65))]

(* Pass/fail and zone of the final score *)
isolationOverall(results, avgScore, allTargetsOk) ==
    [results EXCEPT
        !.overallScore = avgScore,
        !.overallZone  = scoreZone(avgScore, 85, 65, 40),
        !.passed = allTargetsOk /\ ~hasMajorViolation(results.violations)
                   /\ FGe(avgScore, Lit(65))]

(* Calculate final score: counted are the results whose score is summed,   *)
(* the thumb first when it is a target                                     *)
isolationScored(results) ==
    LET counted == (IF results.thumb.isTarget THEN <<results.thumb>>
                    ELSE << >>) \o results.targets
    IN  isolationOverall(
            results,
            penalised(average(SumScores(counted, Len(counted)), Len(counted)),
                      results.violations),
            (* allTargetsOk *)
            \A n \in 1..Len(counted) :
                IF counted[n].fingerIndex = 0 THEN counted[n].pass
                ELSE counted[n].zone # ZONE.RED)

(* the violations of the non-target fingers *)
isolationViolations(results) ==
    [results EXCEPT
        !.violations = @ \o violationsOf(SelectSeq(results.nonTargets,
                                                   LAMBDA r : r.violation))]

(* Evaluate ISOLATION exercise *)
evaluateIsolation(lm, targetFingers) ==
    isolationScored(isolationViolations(
        isolationFingers(lm, targetFingers, getHandFrame(lm),
                         isolationBoundaries(lm, targetFingers), newResults)))

(* evaluateIsolation reads a property of an undefined landmark *)
evaluateIsolationThrows(lm, targetFingers) ==
    \/ AnyUndef(lm, HandFrameNodes)
    \/ createBoundariesThrow(withoutThumb(targetFingers), lm)
    \/ AnyUndef(lm, thumbNodes(Includes(targetFingers, 0)))
    \/ \E i \in 1..4 :
          IF Includes(targetFingers, i)
          THEN AnyUndef(lm, targetFingerNodes(i))
          ELSE nonTargetFingerThrows(i, lm,
                                     isolationBoundaries(lm, targetFingers))

(* ALL_TIPS.indexOf(tipIdx): -1 when tipIdx is no tip *)
indexOfTip(tipIdx) ==
    IF \E i \in 1..Len(ALL_TIPS) : ALL_TIPS[i] = tipIdx
    THEN (CHOOSE i \in 1..Len(ALL_TIPS) : ALL_TIPS[i] = tipIdx) - 1
    ELSE -1

(* involvedTips.map(tipIdx => ALL_TIPS.indexOf(tipIdx)) *)
involvedFingersOf(pinchPair) ==
    <<indexOfTip(pinchPair[1]), indexOfTip(pinchPair[2])>>

(* Create boundaries based on involved fingers (excluding thumb) *)
pinchBoundaries(lm, nonThumbInvolved, frame) ==
    IF Len(nonThumbInvolved) > 0
    THEN createBoundariesForTargets(nonThumbInvolved, lm, frame)
    ELSE createBoundaryForFinger(2, lm, frame)

(* Determine zone based on distance *)
pinchBand(normalizedDist) ==
    IF LT(normalizedDist, 5) THEN [zone |-> ZONE.GREEN, score |-> Lit(100)]
    ELSE IF LT(normalizedDist, 8) THEN [zone |-> ZONE.GREEN, score |-> Lit(90)]
    ELSE IF LT(normalizedDist, 12) THEN [zone |-> ZONE.BLUE, score |-> Lit(75)]
    ELSE IF LT(normalizedDist, 18) THEN [zone |-> ZONE.YELLOW, score |-> Lit(55)]
    ELSE IF LT(normalizedDist, 28) THEN [zone |-> ZONE.YELLOW, score |-> Lit(40)]
    ELSE [zone |-> ZONE.RED, score |-> Lit(20)]

isMajor(result) == result.violation /\ result.severity = "major"

(* Check non-involved fingers for major violations only: major are the     *)
(* fingers with one                                                        *)
pinchViolations(major) ==
    [n \in 1..Len(major) |->
        [finger |-> FINGER_NAMES[major[n] + 1], severity |-> "major"]]

pinchResult(normalizedDist, zone, finalScore, violations, involvedFingers) ==
    [distance        |-> normalizedDist,
     zone            |-> zone,
     score           |-> finalScore,
     passed          |-> FGe(finalScore, Lit(65)),
     violations      |-> violations,
     involvedFingers |-> involvedFingers,
     thumbHandling   |-> "lenient"]

(* A faulty variant of pinchPenalty: the penalty lowers the score and      *)
(* leaves the zone.                                                        *)
pinchPenaltyKeepZone(normalizedDist, band, violations, involvedFingers) ==
    pinchResult(normalizedDist, band.zone,
                IF Len(violations) > 0 THEN FMul(band.score, Lit(70))
                ELSE band.score,
                violations, involvedFingers)

(* Apply penalty for violations *)
pinchPenalty(normalizedDist, band, violations, involvedFingers) ==
    pinchResult(normalizedDist,
                IF Len(violations) > 0 /\ band.zone = ZONE.GREEN
                THEN ZONE.BLUE ELSE band.zone,
                IF Len(violations) > 0 THEN FMul(band.score, Lit(70))
                ELSE band.score,
                violations, involvedFingers)

(* Evaluate PINCH exercise *)
evaluatePinch(lm, pinchPair) ==
    LET frame            == getHandFrame(lm)
        dist             == distance(At(lm, pinchPair[1]), At(lm, pinchPair[2]))
        normalizedDist   == Div(dist, frame.handWidth)
        involvedFingers  == involvedFingersOf(pinchPair)
        nonThumbInvolved == withoutThumb(involvedFingers)
    IN  pinchPenalty(
            normalizedDist, pinchBand(normalizedDist),
            pinchViolations(
                SelectSeq(SelectSeq(<<1, 2, 3, 4>>,
                                    LAMBDA i : ~Includes(involvedFingers, i)),
                          LAMBDA i :
                              isMajor(evaluateNonTargetFinger(
                                  i, lm,
                                  pinchBoundaries(lm, nonThumbInvolved, frame),
                                  frame)))),
            involvedFingers)

(* evaluatePinch reads a property of an undefined landmark *)
evaluatePinchThrows(lm, pinchPair) ==
    LET involvedFingers  == involvedFingersOf(pinchPair)
        nonThumbInvolved == withoutThumb(involvedFingers)
    IN  \/ AnyUndef(lm, HandFrameNodes)
        \/ AnyUndef(lm, {pinchPair[1], pinchPair[2]})
        \/ createBoundariesThrow(nonThumbInvolved, lm)
        \/ \E i \in 1..4 :
              /\ ~Includes(involvedFingers, i)
              /\ nonTargetFingerThrows(
                     i, lm, pinchBoundaries(lm, nonThumbInvolved,
                                            getHandFrame(lm)))

(* the extension check of evaluateSpread and evaluateFlat: the thumb as a  *)
(* target, then the four fingers as targets                                *)
extensionResults(lm, frame) ==
    [i \in 1..5 |->
        IF i = 1 THEN evaluateThumb(lm, frame, TRUE)
        ELSE evaluateTargetFinger(i - 1, lm, frame)]

extensionThrows(lm) ==
    \/ AnyUndef(lm, HandFrameNodes)
    \/ AnyUndef(lm, thumbNodes(TRUE))
    \/ \E i \in 1..4 : AnyUndef(lm, targetFingerNodes(i))
    \/ AnyUndef(lm, {ALL_TIPS[i] : i \in 1..5})

(* normalizedGap of the adjacent fingertips i, i + 1, for i in 1..4 *)
normalizedGaps(lm, frame) ==
    [i \in 1..4 |->
        Div(distance(At(lm, ALL_TIPS[i]), At(lm, ALL_TIPS[i + 1])),
            frame.handWidth)]

RECURSIVE SumGaps(_, _)
SumGaps(scores, n) ==
    IF n = 0 THEN << >> ELSE FAdd(SumGaps(scores, n - 1), scores[n])

(* the gap scores of evaluateSpread *)
spreadGapScores(gaps) ==
    [i \in 1..4 |->
        IF GT(gaps[i], 30) THEN Lit(100)
        ELSE IF GT(gaps[i], 20) THEN Lit(80)
        ELSE IF GT(gaps[i], 12) THEN Lit(60)
        ELSE IF GT(gaps[i], 6) THEN Lit(40)
        ELSE Lit(20)]

spreadResult(results, extensionScore, gapScore, gaps, finalScore) ==
    [fingerResults  |-> results,
     extensionScore |-> extensionScore,
     gapScore       |-> gapScore,
     gaps           |-> gaps,
     zone           |-> scoreZone(finalScore, 85, 65, 45),
     score          |-> finalScore,
     passed         |-> FGe(finalScore, Lit(65))]

(* A faulty variant of spreadCombined: the gaps do not count. *)
spreadCombinedExtension(results, extensionScore, gapScore, gaps) ==
    spreadResult(results, extensionScore, gapScore, gaps, extensionScore)

(* Combine scores *)
spreadCombined(results, extensionScore, gapScore, gaps) ==
    spreadResult(results, extensionScore, gapScore, gaps,
                 FAdd(FMul(extensionScore, Lit(50)), FMul(gapScore, Lit(50))))

spreadScored(results, gaps) ==
    spreadCombined(results,
                   FDivInt(SumScores(results, 5), 5),
                   FDivInt(SumGaps(spreadGapScores(gaps), 4), 4),
                   gaps)

(* Evaluate SPREAD exercise (starfish) *)
evaluateSpread(lm) ==
    spreadScored([i \in 1..5 |->
                     [finger |-> FINGER_NAMES[i], fingerIndex |-> i - 1]
                         @@ extensionResults(lm, getHandFrame(lm))[i]],
                 normalizedGaps(lm, getHandFrame(lm)))

(* the zones of the curl check of evaluateFist *)
curlZone(normalizedCurl, curlRatio) ==
    IF GT(normalizedCurl, 8) /\ LT(curlRatio, 90)
    THEN [zone |-> ZONE.GREEN, score |-> Lit(100), curled |-> TRUE]
    ELSE IF GT(normalizedCurl, 2) /\ LT(curlRatio, 100)
    THEN [zone |-> ZONE.BLUE, score |-> Lit(75), curled |-> TRUE]
    ELSE IF GT(normalizedCurl, -5) /\ LT(curlRatio, 110)
    THEN [zone |-> ZONE.YELLOW, score |-> Lit(50), curled |-> TRUE]
    ELSE [zone |-> ZONE.RED, score |-> Lit(25), curled |-> FALSE]

(* the curl check of evaluateFist for finger i *)
fistFinger(lm, frame, i) ==
    LET tip   == At(lm, FINGER_NODES[i].tip)
        mcp   == At(lm, FINGER_NODES[i].mcp)
        wrist == At(lm, 0)
        tipBelowMcp == tip.y - mcp.y
    IN  [finger |-> FINGER_NAMES[i + 1], fingerIndex |-> i] @@
        curlZone(
            (* normalizedCurl *)
            DivDiff(tipBelowMcp, ~HasXY(tip) \/ ~HasXY(mcp), frame.handLength),
            (* curlRatio *)
            Div(distance(tip, wrist), distance(mcp, wrist)))

fistResult(results, finalScore) ==
    [fingerResults |-> results,
     zone          |-> scoreZone(finalScore, 80, 60, 45),
     score         |-> finalScore,
     passed        |-> FGe(finalScore, Lit(55))]

(* A faulty variant of fistScored: the thumb is not counted and the four   *)
(* fingers are averaged.                                                   *)
fistScoredFingers(results) ==
    fistResult(results,
               FDivInt(SumScores(SubSeq(results, 2, 5), 4), 4))

fistScored(results) == fistResult(results, FDivInt(SumScores(results, 5), 5))

(* Evaluate FIST exercise *)
evaluateFist(lm) ==
    fistScored([i \in 1..5 |-> fistFinger(lm, getHandFrame(lm), i - 1)])

evaluateFistThrows(lm) ==
    \/ AnyUndef(lm, HandFrameNodes)
    \/ \E i \in 0..4 : AnyUndef(lm, {FINGER_NODES[i].tip, FINGER_NODES[i].mcp})

(* the scores of evaluateFlat for fingers that are together *)
togetherScores(gaps) ==
    [i \in 1..4 |->
        IF LT(gaps[i], 6) THEN Lit(100)
        ELSE IF LT(gaps[i], 10) THEN Lit(80)
        ELSE IF LT(gaps[i], 15) THEN Lit(60)
        ELSE IF LT(gaps[i], 22) THEN Lit(40)
        ELSE Lit(20)]

flatResult(results, extensionScore, togetherScore, finalScore) ==
    [fingerResults  |-> results,
     extensionScore |-> extensionScore,
     togetherScore  |-> togetherScore,
     zone           |-> scoreZone(finalScore, 85, 65, 45),
     score          |-> finalScore,
     passed         |-> FGe(finalScore, Lit(65))]

flatCombined(results, extensionScore, togetherScore) ==
    flatResult(results, extensionScore, togetherScore,
               FAdd(FMul(extensionScore, Lit(60)), FMul(togetherScore, Lit(40))))

flatScored(results, gaps) ==
    flatCombined(results,
                 FDivInt(SumScores(results, 5), 5),
                 FDivInt(SumGaps(togetherScores(gaps), 4), 4))

(* Evaluate FLAT hand *)
evaluateFlat(lm) ==
    flatScored([i \in 1..5 |->
                   [finger |-> FINGER_NAMES[i]]
                       @@ extensionResults(lm, getHandFrame(lm))[i]],
               normalizedGaps(lm, getHandFrame(lm)))

---------------------------------------------------------------------------
(* Public API.  A call returns a value or throws: [threw, value].          *)

Returned(v) == [threw |-> FALSE, value |-> v]

Threw == [threw |-> TRUE, value |-> "TypeError"]

invalidLandmarks ==
    [error |-> "Invalid landmarks", passed |-> FALSE, score |-> << >>,
     zone |-> ZONE.RED]

unknownType ==
    [error |-> "Unknown type", passed |-> FALSE, score |-> << >>,
     zone |-> ZONE.RED]

Has(rec, field) == field \in DOMAIN rec

(* exercise.targetFingers || [] *)
targetFingersOf(ex) == IF Has(ex, "targetFingers") THEN ex.targetFingers ELSE << >>

(* exercise.pinchPair || [4, 8] *)
pinchPairOf(ex) == IF Has(ex, "pinchPair") THEN ex.pinchPair ELSE <<4, 8>>

(* a strategy called on a landmark array: null[0] throws as well *)
callIsolation(lm, targetFingers) ==
    IF lm.missing \/ evaluateIsolationThrows(lm, targetFingers) THEN Threw
    ELSE Returned(evaluateIsolation(lm, targetFingers))

callPinch(lm, pinchPair) ==
    IF lm.missing \/ evaluatePinchThrows(lm, pinchPair) THEN Threw
    ELSE Returned(evaluatePinch(lm, pinchPair))

callSpread(lm) ==
    IF lm.missing \/ extensionThrows(lm) THEN Threw
    ELSE Returned(evaluateSpread(lm))

callFist(lm) ==
    IF lm.missing \/ evaluateFistThrows(lm) THEN Threw
    ELSE Returned(evaluateFist(lm))

callFlat(lm) ==
    IF lm.missing \/ extensionThrows(lm) THEN Threw
    ELSE Returned(evaluateFlat(lm))

(* A faulty variant of evaluate: the landmarks are not validated. *)
evaluateUnvalidated(lm, ex) ==
    CASE ex.type = "isolation" -> callIsolation(lm, targetFingersOf(ex))
      [] ex.type = "pinch"     -> callPinch(lm, pinchPairOf(ex))
      [] ex.type = "spread"    -> callSpread(lm)
      [] ex.type = "fist"      -> callFist(lm)
      [] ex.type = "flat"      -> callFlat(lm)
      [] OTHER                  -> Returned(unknownType)

(* A faulty variant of evaluate: a type that is not known is evaluated as  *)
(* a fist.                                                                 *)
evaluateDefaulting(lm, ex) ==
    IF lm.missing \/ Length(lm) < 21 THEN Returned(invalidLandmarks)
    ELSE CASE ex.type = "isolation" -> callIsolation(lm, targetFingersOf(ex))
           [] ex.type = "pinch"     -> callPinch(lm, pinchPairOf(ex))
           [] ex.type = "spread"    -> callSpread(lm)
           [] ex.type = "flat"      -> callFlat(lm)
           [] OTHER                  -> callFist(lm)

(* A faulty variant of evaluate: the type is looked at before the          *)
(* landmarks are counted.                                                  *)
evaluateTypeFirst(lm, ex) ==
    IF ex.type \notin {"isolation", "pinch", "spread", "fist", "flat"}
    THEN Returned(unknownType)
    ELSE IF lm.missing \/ Length(lm) < 21 THEN Returned(invalidLandmarks)
    ELSE CASE ex.type = "isolation" -> callIsolation(lm, targetFingersOf(ex))
           [] ex.type = "pinch"     -> callPinch(lm, pinchPairOf(ex))
           [] ex.type = "spread"    -> callSpread(lm)
           [] ex.type = "fist"      -> callFist(lm)
           [] OTHER                  -> callFlat(lm)

(* Universal evaluate function - handles any exercise type *)
evaluate(lm, ex) ==
    IF lm.missing \/ Length(lm) < 21 THEN Returned(invalidLandmarks)
    ELSE CASE ex.type = "isolation" -> callIsolation(lm, targetFingersOf(ex))
           [] ex.type = "pinch"     -> callPinch(lm, pinchPairOf(ex))
           [] ex.type = "spread"    -> callSpread(lm)
           [] ex.type = "fist"      -> callFist(lm)
           [] ex.type = "flat"      -> callFlat(lm)
           [] OTHER                  -> Returned(unknownType)

(* getHandFrame as exported: it reads x of the landmarks 0, 12, 5, 17, 9   *)
(* and 13, and throws when one of them is undefined                        *)
callHandFrame(lm) ==
    IF lm.missing \/ AnyUndef(lm, HandFrameNodes) THEN Threw
    ELSE Returned(getHandFrame(lm))

(* Debug: Get current boundaries for visualization *)
debugGetBoundaries(lm, targetFingers) ==
    IF lm.missing \/ AnyUndef(lm, HandFrameNodes)
       \/ createBoundariesThrow(targetFingers, lm)
    THEN Threw
    ELSE Returned(createBoundariesForTargets(targetFingers, lm, getHandFrame(lm)))

---------------------------------------------------------------------------
(* The frames and descriptors a session draws from.  A hand is the wrist   *)
(* and, per finger, the four joints base to tip; coordinates are in 64ths  *)
(* of the camera frame, y grows downwards.                                 *)

P(x, y) == Pt(x, y, 0)

Wrist == P(32, 60)

ThumbPoses ==
    [out    |-> <<P(26, 54), P(21, 48), P(16, 42), P(12, 36)>>,
     well   |-> <<P(26, 54), P(21, 48), P(21, 44), P(22, 41)>>,
     part   |-> <<P(26, 54), P(21, 48), P(23, 46), P(24, 45)>>,
     tucked |-> <<P(26, 54), P(22, 49), P(24, 47), P(27, 50)>>]

IndexPoses ==
    [up     |-> <<P(24, 36), P(23, 27), P(22, 20), P(22, 13)>>,
     half   |-> <<P(24, 36), P(23, 28), P(24, 32), P(24, 30)>>,
     curled |-> <<P(24, 36), P(23, 29), P(25, 33), P(26, 40)>>]

MiddlePoses ==
    [up     |-> <<P(32, 34), P(32, 25), P(32, 17), P(32, 10)>>,
     low    |-> <<P(32, 34), P(32, 27), P(32, 29), P(32, 32)>>,
     curled |-> <<P(32, 34), P(32, 28), P(33, 33), P(33, 41)>>]

RingPoses ==
    [up     |-> <<P(39, 36), P(40, 28), P(41, 21), P(41, 15)>>,
     flat   |-> <<P(39, 36), P(40, 30), P(40, 34), P(40, 37)>>,
     curled |-> <<P(39, 36), P(40, 31), P(41, 36), P(39, 43)>>]

PinkyPoses ==
    [up     |-> <<P(45, 40), P(47, 33), P(48, 28), P(49, 23)>>,
     half   |-> <<P(45, 40), P(47, 35), P(48, 37), P(48, 36)>>,
     curled |-> <<P(45, 40), P(46, 36), P(46, 41), P(44, 46)>>]

Range(f) == {f[k] : k \in DOMAIN f}

(* the landmark array of a wrist and five finger poses *)
Hand(wrist, thumb, index, middle, ring, pinky) ==
    [missing |-> FALSE,
     pts |-> [i \in 0..20 |->
                 IF i = 0 THEN wrist
                 ELSE LET joint == ((i - 1) % 4) + 1
                      IN  CASE i <= 4  -> thumb[joint]
                            [] i <= 8  -> index[joint]
                            [] i <= 12 -> middle[joint]
                            [] i <= 16 -> ring[joint]
                            [] OTHER   -> pinky[joint]]]

PosedHands ==
    {Hand(Wrist, t, i, m, r, p) :
        t \in {ThumbPoses.out, ThumbPoses.tucked},
        i \in Range(IndexPoses), m \in Range(MiddlePoses),
        r \in Range(RingPoses), p \in Range(PinkyPoses)}

(* the thumb half way, over an open and over a closed hand *)
ThumbHands ==
    {Hand(Wrist, t, f[1], m, f[2], f[3]) :
        t \in {ThumbPoses.well, ThumbPoses.part}, m \in Range(MiddlePoses),
        f \in {<<IndexPoses.up, RingPoses.up, PinkyPoses.up>>,
               <<IndexPoses.curled, RingPoses.curled, PinkyPoses.curled>>}}

(* the hands every target list is tried on *)
ListHands ==
    {Hand(Wrist, t, f[1], f[2], f[3], f[4]) :
        t \in {ThumbPoses.out, ThumbPoses.tucked},
        f \in {<<IndexPoses.up, MiddlePoses.up, RingPoses.up, PinkyPoses.up>>,
               <<IndexPoses.up, MiddlePoses.curled, RingPoses.curled, PinkyPoses.curled>>,
               <<IndexPoses.curled, MiddlePoses.up, RingPoses.curled, PinkyPoses.up>>,
               <<IndexPoses.half, MiddlePoses.low, RingPoses.flat, PinkyPoses.half>>,
               <<IndexPoses.up, MiddlePoses.low, RingPoses.curled, PinkyPoses.half>>,
               <<IndexPoses.curled, MiddlePoses.curled, RingPoses.up, PinkyPoses.curled>>}}

OpenHand ==
    Hand(Wrist, ThumbPoses.out, IndexPoses.up, MiddlePoses.up, RingPoses.up,
         PinkyPoses.up)

(* pinching hands: the index finger bent towards the thumb, the thumb tip  *)
(* at MaxPinchGap + 1 distances from the index tip                         *)
MaxPinchGap == 7

PinchIndex == <<P(24, 36), P(22, 28), P(20, 31), P(18, 34)>>

PinchThumb(gap) ==
    <<P(26, 54), P(21, 48), P(19, 42),
      IF gap = 1 THEN P(19, 35) ELSE P(18 + gap, 34)>>

PinchHands ==
    {Hand(Wrist, PinchThumb(g), PinchIndex, m, r, PinkyPoses.curled) :
        g \in 0..MaxPinchGap,
        m \in {MiddlePoses.up, MiddlePoses.curled},
        r \in {RingPoses.up, RingPoses.curled}}

(* degenerate frames: handLength = 0 (the wrist on the middle fingertip),  *)
(* handWidth = 0 (the pinky base on the index base), both, and a hand      *)
(* collapsed to one point                                                  *)
DegenerateHands ==
    {Hand(MiddlePoses.up[4], ThumbPoses.out, IndexPoses.up, MiddlePoses.up,
          RingPoses.up, PinkyPoses.up),
     Hand(Wrist, ThumbPoses.out, IndexPoses.up, MiddlePoses.up, RingPoses.up,
          [PinkyPoses.up EXCEPT ![1] = IndexPoses.up[1]]),
     Hand(MiddlePoses.up[4], ThumbPoses.well, IndexPoses.half, MiddlePoses.up,
          RingPoses.curled, [PinkyPoses.curled EXCEPT ![1] = IndexPoses.up[1]]),
     [missing |-> FALSE, pts |-> [i \in 0..20 |-> Wrist]]}

(* a point with depth: the middle fingertip towards the camera *)
DeepHands ==
    {[OpenHand EXCEPT !.pts[12] = Pt(32, 10, z)] : z \in {-6, 12}}

(* a closed fist: the four fingers curled, the thumb folded over the palm  *)
(* with its tip below its base                                             *)
FistHand ==
    Hand(Wrist, <<P(26, 54), P(27, 55), P(29, 56), P(30, 57)>>,
         IndexPoses.curled, MiddlePoses.curled, RingPoses.curled,
         PinkyPoses.curled)

ValidHands ==
    PosedHands \cup ThumbHands \cup PinchHands \cup DegenerateHands
        \cup DeepHands \cup {FistHand}

(* 21 or more entries, one of them undefined or without coordinates *)
MaxLength == 22

MalformedHands ==
    {[OpenHand EXCEPT !.pts[i] = e] : i \in 0..20, e \in {Undef, EmptyObj}}

LongHands ==
    {[missing |-> FALSE,
      pts |-> [i \in 0..(n - 1) |-> IF i <= 20 THEN h.pts[i] ELSE e]] :
        n \in 22..MaxLength, e \in {Undef, P(1, 1)},
        h \in {OpenHand, [OpenHand EXCEPT !.pts[8] = Undef]}}

(* fewer than 21 entries, or no array at all *)
ShortHands ==
    {[missing |-> FALSE, pts |-> [i \in 0..(n - 1) |-> OpenHand.pts[i]]] :
        n \in 0..20}
    \cup {[missing |-> TRUE, pts |-> << >>]}

OddHands == MalformedHands \cup LongHands \cup ShortHands

(* target lists: every list of at most MaxTargets fingers, and the longer  *)
(* lists of the exercise catalogue                                         *)
MaxTargets == 2

TargetLists ==
    UNION {[1..n -> 0..4] : n \in 0..MaxTargets}
    \cup {<<1, 2, 3>>, <<3, 1, 2>>, <<1, 2, 3, 4>>, <<0, 1, 2, 3, 4>>}

PinchPairs == {<<4, 8>>, <<8, 4>>, <<4, 12>>, <<4, 16>>, <<4, 20>>, <<8, 12>>}

ListExercises == {[type |-> "isolation", targetFingers |-> t] : t \in TargetLists}

(* the descriptors of the exercise catalogue, and some it does not have *)
Exercises ==
    {[type |-> "isolation", targetFingers |-> t] :
        t \in {<<0>>, <<1>>, <<2>>, <<3>>, <<4>>, <<1, 2>>, <<1, 4>>, <<0, 4>>,
               <<1, 2, 3>>, <<1, 2, 3, 4>>}}
    \cup {[type |-> "pinch", pinchPair |-> pp] : pp \in PinchPairs}
    \cup {[type |-> t] :
            t \in {"isolation", "pinch", "spread", "fist", "flat", "wave", "none"}}

(* one descriptor of every kind, for the frames that are not hands *)
KindExercises ==
    {[type |-> "isolation", targetFingers |-> t] :
        t \in {<<1>>, <<0>>, <<1, 1>>, <<1, 2, 3, 4>>}}
    \cup {[type |-> "pinch", pinchPair |-> <<4, 8>>]}
    \cup {[type |-> t] :
            t \in {"isolation", "pinch", "spread", "fist", "flat", "wave", "none"}}

NoCall == [op |-> "none"]

(* A faulty variant of targetFingersAfter: the array is sorted in place. *)
sortedInPlace(targetFingers) == sortedTargets(targetFingers)

(* the array createBoundariesForTargets was given, after the call:         *)
(* [...targetFingers].sort((a, b) => a - b) sorts a copy                   *)
targetFingersAfter(targetFingers) == targetFingers

(* the descriptor after a call.  Only _debugGetBoundaries hands            *)
(* targetFingers itself to createBoundariesForTargets, which sorts when    *)
(* there are two targets or more; evaluateIsolation and evaluatePinch hand *)
(* it the new array of a filter, and nothing else is written.              *)
exerciseAfter(op, ex) ==
    IF op = "_debugGetBoundaries" /\ Len(ex.targetFingers) > 1
    THEN [ex EXCEPT !.targetFingers = targetFingersAfter(@)]
    ELSE ex

(* the landmarks after a call: finger, fingerIndex and isTarget are set on *)
(* the result objects, the boundaries and the frame hold the landmarks     *)
(* without writing to them                                                 *)
landmarksAfter(lm) == lm

---------------------------------------------------------------------------
(* The caller holds the current frame and the descriptor of the current    *)
(* exercise, and calls the engine on them.  call is the call made on them  *)
(* and what it gave.  first is a history variable: the first call of a     *)
(* recorded session with its arguments, and whether a later call has been  *)
(* made.  Spec follows one call on every input and does not record;        *)
(* SeqSpec follows sequences of calls over a few frames and descriptors.   *)

Recorded(c) ==
    IF first.op = "unrecorded" THEN first
    ELSE IF first.op = "none"
    THEN [op |-> c.op, landmarks |-> landmarks, exercise |-> exercise,
          threw |-> c.threw, value |-> c.value, later |-> FALSE]
    ELSE [first EXCEPT !.later = TRUE]

Init ==
    /\ \/ landmarks \in ValidHands /\ exercise \in Exercises
       \/ landmarks \in ListHands /\ exercise \in ListExercises
       \/ landmarks \in OddHands /\ exercise \in KindExercises
    /\ call = NoCall
    /\ first = [op |-> "unrecorded"]

Done(op, r) ==
    /\ call = NoCall
    /\ call' = [op |-> op, threw |-> r.threw, value |-> r.value]
    /\ first' = Recorded(call')
    /\ landmarks' = landmarksAfter(landmarks)
    /\ exercise' = exerciseAfter(op, exercise)

Evaluate == Done("evaluate", evaluate(landmarks, exercise))

EvaluateIsolation ==
    /\ exercise.type = "isolation" /\ Has(exercise, "targetFingers")
    /\ Done("evaluateIsolation", callIsolation(landmarks, exercise.targetFingers))

EvaluatePinch ==
    /\ exercise.type = "pinch" /\ Has(exercise, "pinchPair")
    /\ Done("evaluatePinch", callPinch(landmarks, exercise.pinchPair))

EvaluateSpread ==
    /\ exercise.type = "spread"
    /\ Done("evaluateSpread", callSpread(landmarks))

EvaluateFist ==
    /\ exercise.type = "fist"
    /\ Done("evaluateFist", callFist(landmarks))

EvaluateFlat ==
    /\ exercise.type = "flat"
    /\ Done("evaluateFlat", callFlat(landmarks))

DebugGetBoundaries ==
    /\ exercise.type = "isolation" /\ Has(exercise, "targetFingers")
    /\ Done("_debugGetBoundaries",
            debugGetBoundaries(landmarks, exercise.targetFingers))

GetHandFrame == Done("getHandFrame", callHandFrame(landmarks))

Next ==
    \/ Evaluate
    \/ GetHandFrame
    \/ EvaluateIsolation
    \/ EvaluatePinch
    \/ EvaluateSpread
    \/ EvaluateFist
    \/ EvaluateFlat
    \/ DebugGetBoundaries

Spec == Init /\ [][Next]_vars

---------------------------------------------------------------------------
(* Sequences of calls: the caller takes the result, then the camera gives  *)
(* another frame or the session moves to another exercise.                 *)

(* the factor by which a hand is scaled down *)
Shrink == 2048

(* the landmarks lm with every coordinate divided by s *)
Shrunk(lm, s) ==
    [lm EXCEPT !.pts = [i \in DOMAIN lm.pts |->
                           IF lm.pts[i].kind = "pt"
                           THEN [lm.pts[i] EXCEPT !.shrink = s]
                           ELSE lm.pts[i]]]

(* index and middle raised, the ring finger half raised beside them *)
TiltHand ==
    Hand(Wrist, ThumbPoses.out, IndexPoses.up, MiddlePoses.up,
         <<P(39, 36), P(40, 30), P(41, 27), P(41, 24)>>, PinkyPoses.curled)

SeqHands ==
    {OpenHand, TiltHand, Shrunk(TiltHand, Shrink),
     Hand(Wrist, PinchThumb(3), PinchIndex, MiddlePoses.curled, RingPoses.curled,
          PinkyPoses.curled),
     Hand(Wrist, PinchThumb(2), PinchIndex, MiddlePoses.up, RingPoses.curled,
          PinkyPoses.curled),
     [OpenHand EXCEPT !.pts[8] = Undef],
     [missing |-> FALSE, pts |-> [i \in 0..19 |-> OpenHand.pts[i]]]}

SeqExercises ==
    {[type |-> "isolation", targetFingers |-> <<1>>],
     [type |-> "isolation", targetFingers |-> <<0, 2>>],
     [type |-> "isolation", targetFingers |-> <<1, 2>>],
     [type |-> "pinch", pinchPair |-> <<4, 8>>],
     [type |-> "spread"], [type |-> "fist"], [type |-> "flat"]}

SeqInit ==
    /\ landmarks \in SeqHands
    /\ exercise \in SeqExercises
    /\ call = NoCall
    /\ first = NoCall

NextFrame ==
    /\ call # NoCall
    /\ landmarks' \in SeqHands
    /\ call' = NoCall
    /\ UNCHANGED <<exercise, first>>

NextExercise ==
    /\ call # NoCall
    /\ exercise' \in SeqExercises
    /\ call' = NoCall
    /\ UNCHANGED <<landmarks, first>>

SeqNext ==
    \/ Next
    \/ NextFrame
    \/ NextExercise

SeqSpec == SeqInit /\ [][SeqNext]_vars

---------------------------------------------------------------------------
(* Properties of evaluate: the results on input that is not a hand.        *)

(* the five exercise types evaluate knows *)
KnownTypes == {"isolation", "pinch", "spread", "fist", "flat"}

(* {error, passed: false, score: 0, zone: RED} *)
FailureResult(v) ==
    /\ DOMAIN v = {"error", "passed", "score", "zone"}
    /\ v.passed = FALSE
    /\ v.score = Lit(0)
    /\ v.zone = ZONE.RED

TooShort(lm) == lm.missing \/ Length(lm) < 21

(* one of the 21 landmarks is undefined or has no coordinates *)
Malformed(lm) ==
    /\ ~TooShort(lm)
    /\ \E i \in 0..20 : ~HasXY(At(lm, i))

(* C1: evaluate called with landmarks missing or with fewer than 21        *)
(* entries returns {error, passed: false, score: 0, zone: RED} and does    *)
(* not throw, whatever the type of the exercise, known or not.             *)
C1_TooFewLandmarks ==
    (call.op = "evaluate" /\ TooShort(landmarks))
        => (~call.threw /\ FailureResult(call.value))

(* evaluate of a strategy that reads the wrist, on the 20 landmarks of a   *)
(* hand without the pinky tip                                              *)
C1_Witness ==
    /\ call.op = "evaluate"
    /\ ~landmarks.missing /\ Length(landmarks) = 20
    /\ exercise.type = "fist"
    /\ ~call.threw
    /\ call.value.error = "Invalid landmarks"

(* C2: evaluate called with at least 21 landmarks and a descriptor whose   *)
(* type is none of isolation, pinch, spread, fist, flat returns an error   *)
(* result (passed: false, score: 0, zone: RED) and does not throw.         *)
C2_UnknownType ==
    (call.op = "evaluate" /\ ~TooShort(landmarks)
     /\ exercise.type \notin KnownTypes)
        => (~call.threw /\ FailureResult(call.value))

C2_Witness ==
    /\ call.op = "evaluate"
    /\ landmarks = OpenHand
    /\ exercise.type = "wave"
    /\ ~call.threw
    /\ call.value.error = "Unknown type"

(* C3: evaluate called with 21 or more entries of which one is malformed   *)
(* (undefined, or without x and y) gives the failure result and raises no  *)
(* exception, for every exercise type.  The code does not validate the     *)
(* entries: an undefined entry that a strategy reads raises a TypeError,   *)
(* and an entry without coordinates is evaluated with NaN.                 *)
C3_MalformedLandmark ==
    (call.op = "evaluate" /\ Malformed(landmarks))
        => (~call.threw /\ FailureResult(call.value))

(* the exception: the wrist is undefined and a fist is evaluated *)
C3_Thrown ==
    /\ call.op = "evaluate"
    /\ Length(landmarks) = 21 /\ At(landmarks, 0) = Undef
    /\ exercise.type = "fist"
    /\ call.threw

---------------------------------------------------------------------------
(* Properties of the scores and zones of a result.                         *)

Zones == {ZONE.GREEN, ZONE.BLUE, ZONE.YELLOW, ZONE.RED}

(* 4 for GREEN down to 1 for RED *)
ZoneRank(z) ==
    CASE z = ZONE.GREEN -> 4 [] z = ZONE.BLUE -> 3 [] z = ZONE.YELLOW -> 2
      [] OTHER -> 1

(* the per-finger results of a result *)
FingerResults(v) ==
    (IF Has(v, "fingerResults") THEN Range(v.fingerResults) ELSE {})
    \cup (IF Has(v, "targets")
          THEN {v.thumb} \cup Range(v.targets) \cup Range(v.nonTargets)
          ELSE {})

(* the aggregate score and zone of a result *)
AggregateScore(v) == IF Has(v, "overallScore") THEN v.overallScore ELSE v.score

AggregateZone(v) == IF Has(v, "overallZone") THEN v.overallZone ELSE v.zone

(* every score of a result: the aggregate, its parts, the fingers' *)
ScoresOf(v) ==
    {AggregateScore(v)}
    \cup {v[k] : k \in DOMAIN v \cap {"extensionScore", "gapScore", "togetherScore"}}
    \cup {r.score : r \in FingerResults(v)}

ZonesOf(v) == {AggregateZone(v)} \cup {r.zone : r \in FingerResults(v)}

(* 21 landmarks or more, the 21 of the hand with coordinates *)
ValidLandmarks(lm) ==
    /\ ~TooShort(lm)
    /\ \A i \in 0..20 : HasXY(At(lm, i))

(* C4: for valid landmarks, every score in the result of evaluate (the     *)
(* aggregate and every per-finger score) is in [0, 1] and every zone       *)
(* (aggregate and per-finger) is one of GREEN, BLUE, YELLOW, RED.  Scores  *)
(* are doubles that are not negative; 0 <= score is FGe(score, Lit(0)).    *)
C4_ScoresAndZones ==
    (call.op = "evaluate" /\ ValidLandmarks(landmarks))
        => /\ ~call.threw
           /\ \A sc \in ScoresOf(call.value) :
                 FGe(sc, Lit(0)) /\ FGe(Lit(100), sc)
           /\ ZonesOf(call.value) \subseteq Zones

(* two targets, both fully extended: the average is 1.0 *)
C4_Witness ==
    /\ call.op = "evaluate"
    /\ ValidLandmarks(landmarks)
    /\ exercise.type = "isolation"
    /\ Len(targetFingersOf(exercise)) = 2
    /\ exercise.targetFingers[1] # exercise.targetFingers[2]
    /\ ~call.threw
    /\ call.value.overallScore = Lit(100)
    /\ \A n \in 1..2 : call.value.targets[n].score = Lit(100)

(* the strategy a call evaluates *)
StrategyOf(op, ex) ==
    CASE op = "evaluate"          -> ex.type
      [] op = "evaluateIsolation" -> "isolation"
      [] op = "evaluatePinch"     -> "pinch"
      [] op = "evaluateSpread"    -> "spread"
      [] op = "evaluateFist"      -> "fist"
      [] op = "evaluateFlat"      -> "flat"
      [] OTHER                    -> "none"

(* the call c, made on the descriptor ex, gave the result of a strategy *)
StrategyResult(c, ex) ==
    /\ c.op \notin {"none", "unrecorded", "_debugGetBoundaries"}
    /\ StrategyOf(c.op, ex) \in KnownTypes
    /\ ~c.threw
    /\ ~Has(c.value, "error")

(* the first call and the current call gave results of the same strategy *)
SameStrategy ==
    /\ StrategyResult(first, first.exercise)
    /\ StrategyResult(call, exercise)
    /\ StrategyOf(first.op, first.exercise) = StrategyOf(call.op, exercise)

(* C5: the zone is monotonic in the score within each strategy: of two     *)
(* results of the same strategy, the one with the strictly greater         *)
(* aggregate score has a zone that is not worse, in the order              *)
(* GREEN > BLUE > YELLOW > RED.  The two results are the first result of   *)
(* a session and a later one, in either order.  evaluatePinch takes the    *)
(* zone from the distance and the score from the distance and the penalty, *)
(* so a penalised BLUE pinch scores less than a YELLOW one.                *)
C5_ZoneMonotonic ==
    SameStrategy =>
        /\ FGt(AggregateScore(call.value), AggregateScore(first.value))
              => ZoneRank(AggregateZone(call.value))
                     >= ZoneRank(AggregateZone(first.value))
        /\ FGt(AggregateScore(first.value), AggregateScore(call.value))
              => ZoneRank(AggregateZone(first.value))
                     >= ZoneRank(AggregateZone(call.value))

(* a pinch of 0.55 in YELLOW after a penalised pinch of 0.75 * 0.7 in BLUE *)
C5_Inversion ==
    /\ SameStrategy
    /\ StrategyOf(call.op, exercise) = "pinch"
    /\ call.value.score = Lit(55) /\ call.value.zone = ZONE.YELLOW
    /\ first.value.score = FMul(Lit(75), Lit(70))
    /\ first.value.zone = ZONE.BLUE
    /\ FGt(call.value.score, first.value.score)

---------------------------------------------------------------------------
(* Properties of a session.                                                *)

(* the current call repeats the first call of the session on its inputs *)
RepeatsFirst ==
    /\ first.op \notin {"none", "unrecorded"}
    /\ first.later
    /\ call # NoCall
    /\ call.op = first.op
    /\ landmarks = first.landmarks
    /\ exercise = first.exercise

---------------------------------------------------------------------------
(* Properties of evaluateIsolation and of the boundaries.                  *)

(* the call gave the result of evaluateIsolation *)
IsolationResult ==
    /\ call.op \in {"evaluate", "evaluateIsolation"}
    /\ exercise.type = "isolation"
    /\ ~call.threw
    /\ Has(call.value, "targets")

(* the score and passed of a result with the targets and violations of v,  *)
(* where the thumb is not counted                                          *)
ScoreWithoutThumb(v) ==
    penalised(average(SumScores(v.targets, Len(v.targets)), Len(v.targets)),
              v.violations)

PassedWithoutThumb(v) ==
    /\ \A n \in 1..Len(v.targets) : v.targets[n].zone # ZONE.RED
    /\ ~hasMajorViolation(v.violations)
    /\ FGe(ScoreWithoutThumb(v), Lit(65))

SpansJoint(line, joint, handWidth) ==
    /\ line.start.y = joint.y /\ line.end.y = joint.y
    /\ line.start.x = joint.x /\ line.start.k = -3
    /\ line.end.x = joint.x /\ line.end.k = 3
    /\ line.start.w = handWidth.sq /\ line.end.w = handWidth.sq
    /\ line.start.nan = (~HasXY(joint) \/ handWidth.nan)
    /\ line.end.nan = line.start.nan
    /\ ~line.start.undef /\ ~line.end.undef

(* createBoundariesForTargets(targetFingers, ...) was called and returned *)
BoundariesResult == call.op = "_debugGetBoundaries" /\ ~call.threw

(* C8: for a single target finger f, createBoundariesForTargets([f], ...)  *)
(* returns three lines, green, acceptable and low, each with start.y equal *)
(* to end.y, at the y of the PIP, DIP and MCP joint of f, each from the    *)
(* x of the joint minus 1.5 * handWidth to that x plus 1.5 * handWidth.    *)
C8_SingleTargetLines ==
    (BoundariesResult /\ Len(exercise.targetFingers) = 1)
        => /\ DOMAIN call.value
                 = {"greenBoundary", "acceptableBoundary", "lowBoundary"}
           /\ SpansJoint(call.value.greenBoundary,
                         At(landmarks, FINGER_NODES[exercise.targetFingers[1]].pip),
                         getHandFrame(landmarks).handWidth)
           /\ SpansJoint(call.value.acceptableBoundary,
                         At(landmarks, FINGER_NODES[exercise.targetFingers[1]].dip),
                         getHandFrame(landmarks).handWidth)
           /\ SpansJoint(call.value.lowBoundary,
                         At(landmarks, FINGER_NODES[exercise.targetFingers[1]].mcp),
                         getHandFrame(landmarks).handWidth)

(* the lines of the ring finger of the open hand, at y = 28, 21 and 36 *)
C8_Witness ==
    /\ BoundariesResult
    /\ landmarks = OpenHand
    /\ exercise.targetFingers = <<3>>
    /\ call.value.greenBoundary.start.y = RingPoses.up[2].y
    /\ call.value.acceptableBoundary.start.y = RingPoses.up[3].y
    /\ call.value.lowBoundary.start.y = RingPoses.up[1].y
    /\ call.value.greenBoundary.start.k < call.value.greenBoundary.end.k
    /\ ~call.value.greenBoundary.start.nan

(* C9: _debugGetBoundaries(landmarks, targetFingers) returns the           *)
(* boundaries evaluateIsolation(landmarks, targetFingers) tests the        *)
(* non-target fingers against, for every target set, those with the thumb  *)
(* (finger 0) included.  _debugGetBoundaries passes targetFingers as they  *)
(* are, and evaluateIsolation passes them without the thumb.               *)
C9_DebugBoundaries ==
    BoundariesResult
        => call.value = isolationBoundaries(landmarks, exercise.targetFingers)

(* the thumb the only target: _debugGetBoundaries gives the lines of the   *)
(* thumb, evaluateIsolation uses those of the middle finger                *)
C9_Differ ==
    /\ BoundariesResult
    /\ landmarks = OpenHand
    /\ exercise.targetFingers = <<0>>
    /\ call.value.greenBoundary.referenceNode = FINGER_NODES[0].pip
    /\ isolationBoundaries(landmarks, exercise.targetFingers)
           .greenBoundary.referenceNode = FINGER_NODES[2].pip

(* the tip of finger f is above the GREEN line of the index finger *)
AboveIndexGreen(lm, f) ==
    isAboveLine(At(lm, FINGER_NODES[f].tip),
                isolationBoundaries(lm, <<1>>).greenBoundary.start,
                isolationBoundaries(lm, <<1>>).greenBoundary.end)

(* the index finger is the only target and is GREEN, and the tips of the   *)
(* middle, ring and pinky finger are not above the GREEN line              *)
IndexIsolated ==
    /\ IsolationResult
    /\ targetFingersOf(exercise) = <<1>>
    /\ call.value.targets[1].zone = ZONE.GREEN
    /\ \A f \in 2..4 : ~AboveIndexGreen(landmarks, f)

(* C10: isolation with targetFingers = [1]: when the index finger is fully *)
(* extended (GREEN) and the tips of the middle, ring and pinky finger are  *)
(* not above the GREEN boundary, the result has overallZone GREEN, passed  *)
(* true and no violations.                                                 *)
C10_IndexOnly ==
    IndexIsolated
        => /\ call.value.overallZone = ZONE.GREEN
           /\ call.value.passed
           /\ call.value.violations = << >>

(* the middle fingertip between the LOW and the GREEN line *)
C10_Witness ==
    /\ IndexIsolated
    /\ At(landmarks, 12) = MiddlePoses.low[4]
    /\ call.value.overallZone = ZONE.GREEN
    /\ call.value.passed
    /\ Len(call.value.violations) = 0

---------------------------------------------------------------------------
(* Properties of evaluatePinch.                                            *)

(* the call gave the result of evaluatePinch *)
PinchResult ==
    /\ call.op \in {"evaluate", "evaluatePinch"}
    /\ exercise.type = "pinch"
    /\ ~call.threw
    /\ Has(call.value, "involvedFingers")

(* the two tips of the pinch are the same point: their distance is 0 *)
TipsCoincide(lm, pinchPair) ==
    distance(At(lm, pinchPair[1]), At(lm, pinchPair[2]))
        = [nan |-> FALSE, sq |-> 0]

(* C11: pinch with pinchPair [4, 8]: when the thumb tip and the index tip  *)
(* coincide on valid landmarks, the result has zone GREEN and score 1.0,   *)
(* whatever the positions of the other fingers.  On a hand whose index     *)
(* and pinky base coincide the normalized distance is 0 / 0 = NaN, which   *)
(* is in no band but the last; and a finger above the GREEN line           *)
(* multiplies the score by 0.7 and makes the zone BLUE.                    *)
C11_CoincidentPinch ==
    (PinchResult /\ pinchPairOf(exercise) = <<4, 8>>
     /\ ValidLandmarks(landmarks)
     /\ TipsCoincide(landmarks, <<4, 8>>))
        => (call.value.zone = ZONE.GREEN /\ call.value.score = Lit(100))

(* the hand collapsed to one point: RED with 0.20 *)
C11_CollapsedHand ==
    /\ PinchResult /\ pinchPairOf(exercise) = <<4, 8>>
    /\ ValidLandmarks(landmarks)
    /\ TipsCoincide(landmarks, <<4, 8>>)
    /\ getHandFrame(landmarks).handWidth.sq = 0
    /\ call.value.distance.p2 = 0 /\ call.value.distance.q2 = 0
    /\ call.value.zone = ZONE.RED
    /\ call.value.score = Lit(20)
    /\ call.value.violations = << >>

---------------------------------------------------------------------------
(* Properties of the hand frame.                                           *)

(* C12: getHandFrame fails with an error whenever it is given fewer than   *)
(* 21 landmarks, for every length 0..20, and never returns a frame built   *)
(* from a short array.  getHandFrame has no check of the length: it reads  *)
(* the landmarks 0, 5, 9, 12, 13 and 17, which an array of 18, 19 or 20    *)
(* entries has.                                                            *)
C12_ShortFrameFails ==
    (call.op = "getHandFrame" /\ TooShort(landmarks)) => call.threw

(* the frame of the first 20 landmarks of the open hand *)
C12_ShortFrame ==
    /\ call.op = "getHandFrame"
    /\ ~landmarks.missing /\ Length(landmarks) = 20
    /\ ~call.threw
    /\ call.value.handLength = distance(OpenHand.pts[0], OpenHand.pts[12])
    /\ call.value.handWidth = distance(OpenHand.pts[5], OpenHand.pts[17])

(* the lengths of the frame an evaluation of a strategy divides by:        *)
(* tipAboveMcp / frame.handLength for a target finger, tipBelowMcp /       *)
(* frame.handLength for a fist, distance(thumbTip, frame.palmCenter) /     *)
(* frame.handWidth for a target thumb, dist / frame.handWidth and          *)
(* gap / frame.handWidth for the tips.  No division is guarded.            *)
frameDivisors(strategy, frame, targetFingers) ==
    CASE strategy = "isolation" ->
             (IF \E i \in 1..4 : Includes(targetFingers, i)
              THEN {frame.handLength} ELSE {})
             \cup (IF Includes(targetFingers, 0) THEN {frame.handWidth} ELSE {})
      [] strategy = "pinch"  -> {frame.handWidth}
      [] strategy = "spread" -> {frame.handLength, frame.handWidth}
      [] strategy = "fist"   -> {frame.handLength}
      [] strategy = "flat"   -> {frame.handLength, frame.handWidth}
      [] OTHER               -> {}

(* handLength = 0 or handWidth = 0 *)
Degenerate(lm) ==
    \/ getHandFrame(lm).handLength.sq = 0
    \/ getHandFrame(lm).handWidth.sq = 0

(* a quotient that is a number: neither NaN nor Infinity *)
Finite(v) == ~v.nan /\ v.q2 # 0

(* C13: no evaluation divides by zero on a degenerate frame: for valid     *)
(* landmarks with handLength = 0 or handWidth = 0, no strategy uses a      *)
(* length that is 0 as a divisor, and the quotients a result reports (the  *)
(* distance of a pinch, the gaps of a spread) are numbers.  The code       *)
(* divides by frame.handLength and frame.handWidth as they are.            *)
C13_NoDivisionByZero ==
    (StrategyResult(call, exercise) /\ ValidLandmarks(landmarks)
     /\ Degenerate(landmarks))
        => /\ \A d \in frameDivisors(StrategyOf(call.op, exercise),
                                     getHandFrame(landmarks),
                                     targetFingersOf(exercise)) : d.sq # 0
           /\ Has(call.value, "distance") => Finite(call.value.distance)
           /\ Has(call.value, "gaps")
                 => \A n \in 1..Len(call.value.gaps) : Finite(call.value.gaps[n])

(* a pinch on a hand whose index and pinky base coincide: the distance     *)
(* reported is Infinity                                                    *)
C13_InfiniteDistance ==
    /\ PinchResult
    /\ ValidLandmarks(landmarks)
    /\ getHandFrame(landmarks).handWidth.sq = 0
    /\ ~call.value.distance.nan
    /\ call.value.distance.q2 = 0 /\ call.value.distance.p2 > 0
    /\ call.value.zone = ZONE.RED

---------------------------------------------------------------------------
(* Properties of the arguments.                                            *)

(* C14: evaluate and every strategy leave their inputs unchanged: after a  *)
(* call the landmarks array and the x, y, z of each landmark are as        *)
(* before, and targetFingers and pinchPair of the descriptor have the same *)
(* elements in the same order.                                             *)
C14_InputsUnchanged ==
    [][(call = NoCall /\ call' # NoCall)
          => (landmarks' = landmarks /\ exercise' = exercise)]_vars

(* the boundaries of the targets [3, 1, 2]: the lines run from the index   *)
(* to the ring finger, and targetFingers is still [3, 1, 2]                *)
C14_Witness ==
    /\ call.op = "_debugGetBoundaries"
    /\ ~call.threw
    /\ landmarks = OpenHand
    /\ exercise.targetFingers = <<3, 1, 2>>
    /\ call.value.greenBoundary.start = LandmarkPoint(At(landmarks, 6))
    /\ call.value.greenBoundary.end = LandmarkPoint(At(landmarks, 14))

(***************************************************************************)
(* C15.  Scale invariance.                                                 *)
(***************************************************************************)

(* the two landmark arrays are one hand at two sizes *)
SameShape(a, b) ==
    /\ a.missing = b.missing
    /\ DOMAIN a.pts = DOMAIN b.pts
    /\ \A i \in DOMAIN a.pts :
          /\ a.pts[i].kind = b.pts[i].kind
          /\ a.pts[i].x = b.pts[i].x
          /\ a.pts[i].y = b.pts[i].y
          /\ a.pts[i].z = b.pts[i].z

(* the first call and the last one evaluate one exercise on one hand shape *)
ScaledRepeat ==
    /\ first.op = "evaluate"
    /\ call.op = "evaluate"
    /\ first.exercise = exercise
    /\ ValidLandmarks(first.landmarks)
    /\ ValidLandmarks(landmarks)
    /\ SameShape(first.landmarks, landmarks)

(* C15: evaluating the same hand shape at another size, on the same        *)
(* exercise, fails or succeeds alike and gives the same result: zones,     *)
(* scores, passed and violations do not depend on the size of the hand.    *)
C15_ScaleInvariant ==
    ScaledRepeat =>
        /\ call.threw = first.threw
        /\ call.value = first.value

(* the hand with index and middle raised and the ring finger half raised,  *)
(* evaluated at full size (GREEN, score 1, passed) and then 2048 times     *)
(* smaller (YELLOW, score 0.5, not passed, the ring finger a violation)    *)
C15_Rescaled ==
    /\ ScaledRepeat
    /\ first.landmarks = TiltHand
    /\ landmarks = Shrunk(TiltHand, Shrink)
    /\ exercise = [type |-> "isolation", targetFingers |-> <<1, 2>>]
    /\ ~first.threw
    /\ ~call.threw
    /\ first.value.overallZone = "GREEN"
    /\ first.value.overallScore = Lit(100)
    /\ first.value.passed
    /\ first.value.violations = << >>
    /\ call.value.overallZone = "YELLOW"
    /\ call.value.overallScore = FMul(Lit(100), Lit(50))
    /\ ~call.value.passed
    /\ Len(call.value.violations) = 1
    /\ call.value.violations[1].fingerIndex = 3
    /\ call.value.violations[1].severity = "major"

(***************************************************************************)
(* C16.  The pass rule of evaluateIsolation.                               *)
(***************************************************************************)

(* the results whose scores are averaged: the thumb when it is a target,   *)
(* then the target fingers                                                 *)
CountedResults(v) ==
    (IF v.thumb.isTarget THEN <<v.thumb>> ELSE << >>) \o v.targets

(* the mean of the target scores, as doubles: the scores are added in the  *)
(* order of the fingers and the sum is divided by their number; 0 when     *)
(* there is no target                                                      *)
MeanTargetScore(v) ==
    average(SumScores(CountedResults(v), Len(CountedResults(v))),
            Len(CountedResults(v)))

NoRedTarget(v) == \A n \in 1..Len(v.targets) : v.targets[n].zone # "RED"

ThumbTargetOk(v) == v.thumb.isTarget => v.thumb.pass

MajorViolation(r) == r.violation /\ r.severity = "major"

NoMajorViolation(v) ==
    \A n \in 1..Len(v.nonTargets) : ~MajorViolation(v.nonTargets[n])

(* C16: evaluateIsolation returns passed = true exactly when no target     *)
(* finger other than the thumb resolved to RED, a targeted thumb did not   *)
(* resolve to pass = false, no non-target finger has a major violation and *)
(* the mean of the target scores is at least 0.65.                         *)
C16_IsolationPass ==
    IsolationResult =>
        (call.value.passed <=>
            /\ NoRedTarget(call.value)
            /\ ThumbTargetOk(call.value)
            /\ NoMajorViolation(call.value)
            /\ FGe(MeanTargetScore(call.value), Lit(65)))

(* no violation and a mean of at least 0.65, and not passed because a      *)
(* target finger is RED                                                    *)
C16_Witness ==
    /\ IsolationResult
    /\ ~call.value.passed
    /\ ~NoRedTarget(call.value)
    /\ ThumbTargetOk(call.value)
    /\ NoMajorViolation(call.value)
    /\ FGe(MeanTargetScore(call.value), Lit(65))

(***************************************************************************)
(* C17.  The score rule of evaluateIsolation.                              *)
(***************************************************************************)

(* the tip of finger f is above the GREEN line of the isolation exercise ex *)
AboveGreen(lm, ex, f) ==
    isAboveLine(At(lm, FINGER_NODES[f].tip),
                isolationBoundaries(lm, targetFingersOf(ex)).greenBoundary.start,
                isolationBoundaries(lm, targetFingersOf(ex)).greenBoundary.end)

(* the mean m of the target scores after the penalty for the violations *)
AfterPenalty(m, v) ==
    IF ~NoMajorViolation(v) THEN FMul(m, Lit(50))
    ELSE IF Len(v.violations) > 0 THEN FMul(m, Lit(85))
    ELSE m

(* the zone of the isolation score s *)
IsolationZoneOf(s) ==
    IF FGe(s, Lit(85)) THEN "GREEN"
    ELSE IF FGe(s, Lit(65)) THEN "BLUE"
    ELSE IF FGe(s, Lit(40)) THEN "YELLOW"
    ELSE "RED"

(* C17: overallScore is the arithmetic mean of the target fingers' scores, *)
(* multiplied by 0.5 when at least one non-target finger has a major       *)
(* violation, which is a tip above the GREEN boundary, multiplied by 0.85  *)
(* when there are violations and none is major, and unmodified otherwise;  *)
(* overallZone is GREEN for a final score >= 0.85, BLUE for >= 0.65,       *)
(* YELLOW for >= 0.40, else RED.                                           *)
C17_IsolationScore ==
    IsolationResult =>
        /\ call.value.overallScore
               = AfterPenalty(MeanTargetScore(call.value), call.value)
        /\ call.value.overallZone = IsolationZoneOf(call.value.overallScore)
        /\ \A n \in 1..Len(call.value.nonTargets) :
              MajorViolation(call.value.nonTargets[n])
                  <=> AboveGreen(landmarks, exercise,
                                 call.value.nonTargets[n].fingerIndex)
        /\ Len(call.value.violations)
               = Cardinality({n \in 1..Len(call.value.nonTargets) :
                                 call.value.nonTargets[n].violation})

(* the index finger is the target and GREEN, the middle fingertip is above *)
(* the GREEN line: one violation, which is major, and the score 1 halved   *)
C17_Witness ==
    /\ IsolationResult
    /\ targetFingersOf(exercise) = <<1>>
    /\ MeanTargetScore(call.value) = Lit(100)
    /\ AboveGreen(landmarks, exercise, 2)
    /\ Len(call.value.violations) = 1
    /\ call.value.violations[1].fingerIndex = 2
    /\ call.value.violations[1].severity = "major"
    /\ call.value.overallScore = FMul(Lit(100), Lit(50))
    /\ call.value.overallZone = "YELLOW"

(***************************************************************************)
(* C18.  The rule of evaluatePinch.                                        *)
(***************************************************************************)

(* the band of the normalized distance d of the two tips *)
PinchBandOf(d) ==
    IF LT(d, 5) THEN [zone |-> "GREEN", score |-> Lit(100)]
    ELSE IF LT(d, 8) THEN [zone |-> "GREEN", score |-> Lit(90)]
    ELSE IF LT(d, 12) THEN [zone |-> "BLUE", score |-> Lit(75)]
    ELSE IF LT(d, 18) THEN [zone |-> "YELLOW", score |-> Lit(55)]
    ELSE IF LT(d, 28) THEN [zone |-> "YELLOW", score |-> Lit(40)]
    ELSE [zone |-> "RED", score |-> Lit(20)]

(* the tip of finger f is above the GREEN line of the pinch of pinchPair *)
AbovePinchGreen(lm, pinchPair, f) ==
    isAboveLine(At(lm, FINGER_NODES[f].tip),
                pinchBoundaries(lm, withoutThumb(involvedFingersOf(pinchPair)),
                                getHandFrame(lm)).greenBoundary.start,
                pinchBoundaries(lm, withoutThumb(involvedFingersOf(pinchPair)),
                                getHandFrame(lm)).greenBoundary.end)

(* a finger that is neither the thumb nor in the pinch has its tip above   *)
(* the GREEN line                                                          *)
PinchIntruder(lm, pinchPair) ==
    \E f \in 1..4 :
        /\ ~Includes(involvedFingersOf(pinchPair), f)
        /\ AbovePinchGreen(lm, pinchPair, f)

(* the result v follows from the band and from whether there is a penalty *)
PinchRule(v, band, penalty) ==
    /\ v.score = (IF penalty THEN FMul(band.score, Lit(70)) ELSE band.score)
    /\ v.zone = (IF penalty /\ band.zone = "GREEN" THEN "BLUE" ELSE band.zone)
    /\ v.passed <=> FGe(v.score, Lit(65))
    /\ (Len(v.violations) > 0) <=> penalty

(* C18: the base zone and score of a pinch come only from the band of the  *)
(* tip-to-tip distance divided by handWidth (< 0.05 GREEN 1.0, < 0.08      *)
(* GREEN 0.90, < 0.12 BLUE 0.75, < 0.18 YELLOW 0.55, < 0.28 YELLOW 0.40,   *)
(* else RED 0.20); if and only if some finger that is neither the thumb    *)
(* nor in the pinch has its tip above the GREEN boundary, the score is     *)
(* multiplied by 0.7 and a GREEN zone becomes BLUE; passed is true exactly *)
(* when the final score is >= 0.65.                                        *)
C18_PinchRule ==
    PinchResult =>
        /\ call.value.distance
               = Div(distance(At(landmarks, pinchPairOf(exercise)[1]),
                              At(landmarks, pinchPairOf(exercise)[2])),
                     getHandFrame(landmarks).handWidth)
        /\ PinchRule(call.value, PinchBandOf(call.value.distance),
                     PinchIntruder(landmarks, pinchPairOf(exercise)))

(* thumb and index tip in the first band and a finger above the GREEN      *)
(* line: BLUE with 1.0 * 0.7, which passes                                 *)
C18_Witness ==
    /\ PinchResult
    /\ pinchPairOf(exercise) = <<4, 8>>
    /\ PinchBandOf(call.value.distance).score = Lit(100)
    /\ PinchIntruder(landmarks, <<4, 8>>)
    /\ call.value.zone = "BLUE"
    /\ call.value.score = FMul(Lit(100), Lit(70))
    /\ call.value.passed

(***************************************************************************)
(* C19.  The rule of evaluateFist.                                         *)
(***************************************************************************)

(* the call gave the result of evaluateFist *)
FistResult ==
    /\ call.op \in {"evaluate", "evaluateFist"}
    /\ exercise.type = "fist"
    /\ ~call.threw
    /\ Has(call.value, "fingerResults")

(* the sum of the five curl scores, added in the order of the fingers *)
CurlScoreSum(v) ==
    FAdd(FAdd(FAdd(FAdd(v.fingerResults[1].score, v.fingerResults[2].score),
                   v.fingerResults[3].score),
              v.fingerResults[4].score),
         v.fingerResults[5].score)

(* the zone of the fist score s *)
FistZoneOf(s) ==
    IF FGe(s, Lit(80)) THEN "GREEN"
    ELSE IF FGe(s, Lit(60)) THEN "BLUE"
    ELSE IF FGe(s, Lit(45)) THEN "YELLOW"
    ELSE "RED"

(* the five fingers meet the top curl tier *)
AllCurled(v) == \A i \in 1..5 : v.fingerResults[i].zone = "GREEN"

(* C19: the fist score is the mean of the five per-finger curl scores, the *)
(* zone is GREEN at >= 0.80, BLUE at >= 0.60, YELLOW at >= 0.45, else RED, *)
(* and passed is true exactly when the score is >= 0.55; a hand whose five *)
(* fingers all meet the top curl tier has score >= 0.80 and passed true.   *)
C19_FistRule ==
    FistResult =>
        /\ Len(call.value.fingerResults) = 5
        /\ call.value.score = FDivInt(CurlScoreSum(call.value), 5)
        /\ call.value.zone = FistZoneOf(call.value.score)
        /\ call.value.passed <=> FGe(call.value.score, Lit(55))
        /\ AllCurled(call.value)
               => (FGe(call.value.score, Lit(80)) /\ call.value.passed)

(* the closed fist: five fingers in the top curl tier, score 1, GREEN *)
C19_Witness ==
    /\ FistResult
    /\ landmarks = FistHand
    /\ AllCurled(call.value)
    /\ call.value.score = Lit(100)
    /\ call.value.zone = "GREEN"
    /\ call.value.passed

(***************************************************************************)
(* C20.  The rule of evaluateSpread.                                       *)
(***************************************************************************)

(* the call gave the result of evaluateSpread *)
SpreadResult ==
    /\ call.op \in {"evaluate", "evaluateSpread"}
    /\ exercise.type = "spread"
    /\ ~call.threw
    /\ Has(call.value, "gapScore")

(* the score of the normalized gap g of two adjacent fingertips *)
GapScoreOf(g) ==
    IF GT(g, 30) THEN Lit(100)
    ELSE IF GT(g, 20) THEN Lit(80)
    ELSE IF GT(g, 12) THEN Lit(60)
    ELSE IF GT(g, 6) THEN Lit(40)
    ELSE Lit(20)

(* the sum of the five extension scores, added in the order of the fingers *)
ExtensionScoreSum(v) ==
    FAdd(FAdd(FAdd(FAdd(v.fingerResults[1].score, v.fingerResults[2].score),
                   v.fingerResults[3].score),
              v.fingerResults[4].score),
         v.fingerResults[5].score)

(* the sum of the four gap scores, added from the thumb to the pinky *)
GapScoreSum(v) ==
    FAdd(FAdd(FAdd(GapScoreOf(v.gaps[1]), GapScoreOf(v.gaps[2])),
              GapScoreOf(v.gaps[3])),
         GapScoreOf(v.gaps[4]))

(* the zone of the spread score s *)
SpreadZoneOf(s) ==
    IF FGe(s, Lit(85)) THEN "GREEN"
    ELSE IF FGe(s, Lit(65)) THEN "BLUE"
    ELSE IF FGe(s, Lit(45)) THEN "YELLOW"
    ELSE "RED"

(* the gaps of the result are the distances of the adjacent fingertips     *)
(* divided by handWidth                                                    *)
GapsOfHand(lm, v) ==
    /\ Len(v.gaps) = 4
    /\ \A i \in 1..4 :
          v.gaps[i] = Div(distance(At(lm, ALL_TIPS[i]), At(lm, ALL_TIPS[i + 1])),
                          getHandFrame(lm).handWidth)

(* the five fingers are in their top extension tier and the four gaps are  *)
(* more than 0.30                                                          *)
FullyOpen(v) ==
    /\ \A i \in 1..5 : v.fingerResults[i].zone = "GREEN"
    /\ \A j \in 1..4 : GT(v.gaps[j], 30)

(* C20: the spread score is 0.5 times the mean of the five per-finger      *)
(* extension scores plus 0.5 times the mean of the four adjacent-tip gap   *)
(* scores (gap / handWidth > 0.30 gives 1.0, > 0.20 0.80, > 0.12 0.60,     *)
(* > 0.06 0.40, else 0.20), with zone GREEN at >= 0.85, BLUE at >= 0.65,   *)
(* YELLOW at >= 0.45, else RED; a fully open hand (five fingers in the top *)
(* extension tier, four gaps > 0.30) has zone GREEN and passed true.       *)
C20_SpreadRule ==
    SpreadResult =>
        /\ Len(call.value.fingerResults) = 5
        /\ GapsOfHand(landmarks, call.value)
        /\ call.value.extensionScore = FDivInt(ExtensionScoreSum(call.value), 5)
        /\ call.value.gapScore = FDivInt(GapScoreSum(call.value), 4)
        /\ call.value.score = FAdd(FMul(call.value.extensionScore, Lit(50)),
                                   FMul(call.value.gapScore, Lit(50)))
        /\ call.value.zone = SpreadZoneOf(call.value.score)
        /\ FullyOpen(call.value)
               => (call.value.zone = "GREEN" /\ call.value.passed)

(* the open hand: extension 1, gaps 1, score 1, GREEN and passed *)
C20_Witness ==
    /\ SpreadResult
    /\ landmarks = OpenHand
    /\ FullyOpen(call.value)
    /\ call.value.extensionScore = Lit(100)
    /\ call.value.gapScore = Lit(100)
    /\ call.value.score = Lit(100)
    /\ call.value.zone = "GREEN"
    /\ call.value.passed

(***************************************************************************)
(* C21.  The order of the checks of evaluate and its routing.              *)
(***************************************************************************)

(* the strategy of the descriptor ex called directly on lm, with the       *)
(* target fingers [] and the pinch pair [4, 8] when ex has none            *)
DirectCall(lm, ex) ==
    CASE ex.type = "isolation" ->
             callIsolation(lm, IF Has(ex, "targetFingers")
                               THEN ex.targetFingers ELSE << >>)
      [] ex.type = "pinch" ->
             callPinch(lm, IF Has(ex, "pinchPair") THEN ex.pinchPair
                           ELSE <<4, 8>>)
      [] ex.type = "spread" -> callSpread(lm)
      [] ex.type = "fist"   -> callFist(lm)
      [] ex.type = "flat"   -> callFlat(lm)

(* C21: evaluate checks the landmark count before it looks at              *)
(* exercise.type: short landmarks with an unknown type give the error      *)
(* "Invalid landmarks", not "Unknown type"; and for 21 valid landmarks the *)
(* result of evaluate is the result of the matching strategy called        *)
(* directly, with targetFingers [] and pinchPair [4, 8] when the           *)
(* descriptor omits them.                                                  *)
C21_DispatchOrder ==
    call.op = "evaluate" =>
        /\ TooShort(landmarks)
               => (~call.threw /\ call.value.error = "Invalid landmarks")
        /\ (ValidLandmarks(landmarks) /\ exercise.type \in KnownTypes)
               => /\ call.threw = DirectCall(landmarks, exercise).threw
                  /\ call.value = DirectCall(landmarks, exercise).value

(* short landmarks and a type that is not known: "Invalid landmarks" *)
C21_Witness ==
    /\ call.op = "evaluate"
    /\ TooShort(landmarks)
    /\ exercise.type \notin KnownTypes
    /\ ~call.threw
    /\ call.value.error = "Invalid landmarks"

(***************************************************************************)
(* C22.  The classification of a non-target finger.                        *)
(***************************************************************************)

(* the tip of finger f is above the ACCEPTABLE line of the isolation       *)
(* exercise ex                                                             *)
AboveAcceptable(lm, ex, f) ==
    isAboveLine(
        At(lm, FINGER_NODES[f].tip),
        isolationBoundaries(lm, targetFingersOf(ex)).acceptableBoundary.start,
        isolationBoundaries(lm, targetFingersOf(ex)).acceptableBoundary.end)

(* the result r of a non-target finger whose tip is, or is not, above the  *)
(* two lines                                                               *)
NonTargetClass(r, aboveGreen, aboveAcceptable) ==
    IF aboveGreen
    THEN /\ r.zone = "RED" /\ r.score = Lit(30)
         /\ r.violation /\ r.severity = "major"
    ELSE IF aboveAcceptable
    THEN r.zone = "YELLOW" /\ r.score = Lit(70) /\ ~r.violation
    ELSE r.zone = "GREEN" /\ r.score = Lit(100) /\ ~r.violation

(* C22: evaluateNonTargetFinger returns RED / 0.3 with violation true and  *)
(* severity major exactly when the fingertip is above the GREEN line;      *)
(* otherwise YELLOW / 0.7 with violation false exactly when the tip is     *)
(* above the ACCEPTABLE line; otherwise GREEN / 1.0 with violation false.  *)
(* A fingertip that is not above the GREEN line never has violation true.  *)
C22_NonTargetClasses ==
    IsolationResult =>
        \A n \in 1..Len(call.value.nonTargets) :
            /\ call.value.nonTargets[n].fingerIndex \in 1..4
            /\ NonTargetClass(
                   call.value.nonTargets[n],
                   AboveGreen(landmarks, exercise,
                              call.value.nonTargets[n].fingerIndex),
                   AboveAcceptable(landmarks, exercise,
                                   call.value.nonTargets[n].fingerIndex))
            /\ call.value.nonTargets[n].violation
                   => AboveGreen(landmarks, exercise,
                                 call.value.nonTargets[n].fingerIndex)

(* a non-target fingertip between the ACCEPTABLE and the GREEN line:       *)
(* YELLOW with 0.7 and no violation                                        *)
C22_Witness ==
    /\ IsolationResult
    /\ \E n \in 1..Len(call.value.nonTargets) :
          /\ ~AboveGreen(landmarks, exercise,
                         call.value.nonTargets[n].fingerIndex)
          /\ AboveAcceptable(landmarks, exercise,
                             call.value.nonTargets[n].fingerIndex)
          /\ call.value.nonTargets[n].zone = "YELLOW"
          /\ call.value.nonTargets[n].score = Lit(70)
          /\ ~call.value.nonTargets[n].violation

(***************************************************************************)
(* C23.  The classification of a target finger.                            *)
(***************************************************************************)

(* e = (MCP.y - TIP.y) / handLength of finger f *)
ExtensionOf(lm, f) ==
    DivDiff(At(lm, FINGER_NODES[f].mcp).y - At(lm, FINGER_NODES[f].tip).y,
            ~HasXY(At(lm, FINGER_NODES[f].mcp))
                \/ ~HasXY(At(lm, FINGER_NODES[f].tip)),
            getHandFrame(lm).handLength)

(* r = dist(tip, wrist) / dist(mcp, wrist) of finger f *)
RatioOf(lm, f) ==
    Div(distance(At(lm, FINGER_NODES[f].tip), At(lm, 0)),
        distance(At(lm, FINGER_NODES[f].mcp), At(lm, 0)))

(* the tier of the result t of a target finger with the signals e and r;   *)
(* min(1, 0.85 + e) is 1 for every double e > 0.15                         *)
TargetTier(t, e, r) ==
    IF GT(e, 15) /\ GT(r, 130)
    THEN t.zone = "GREEN" /\ t.score = Lit(100) /\ t.extended
    ELSE IF GT(e, 8) /\ GT(r, 115)
    THEN t.zone = "BLUE" /\ t.score = Lit(75) /\ t.extended
    ELSE IF GT(e, 2) /\ GT(r, 100)
    THEN t.zone = "YELLOW" /\ t.score = Lit(55) /\ t.extended
    ELSE IF GT(e, -5)
    THEN t.zone = "YELLOW" /\ t.score = Lit(40) /\ ~t.extended
    ELSE t.zone = "RED" /\ t.score = Lit(20) /\ ~t.extended

(* the result t is in no tier above the one of score s *)
BelowTier(t, s) == ~FGe(t.score, s)

(* a finger that meets one threshold of a tier and not the other is in a   *)
(* lower tier                                                              *)
HalfMetTiers(t, e, r) ==
    /\ (GT(e, 15) # GT(r, 130)) => BelowTier(t, Lit(100))
    /\ (GT(e, 8) # GT(r, 115)) => BelowTier(t, Lit(75)) \/ t.zone = "GREEN"
    /\ (GT(e, 2) # GT(r, 100)) => BelowTier(t, Lit(55)) \/ t.zone \in {"GREEN", "BLUE"}

(* C23: with e = (MCP.y - TIP.y) / handLength and r = dist(tip, wrist) /   *)
(* dist(mcp, wrist), a target finger is GREEN with score min(1, 0.85 + e)  *)
(* iff e > 0.15 and r > 1.3; else BLUE / 0.75 iff e > 0.08 and r > 1.15;   *)
(* else YELLOW / 0.55, extended, iff e > 0.02 and r > 1.0; else            *)
(* YELLOW / 0.40, not extended, iff e > -0.05; else RED / 0.20.  A finger  *)
(* that meets the extension threshold of a tier and not its ratio          *)
(* threshold, or the reverse, is in a lower tier.                          *)
C23_TargetTiers ==
    IsolationResult =>
        \A n \in 1..Len(call.value.targets) :
            /\ call.value.targets[n].fingerIndex \in 1..4
            /\ TargetTier(call.value.targets[n],
                          ExtensionOf(landmarks, call.value.targets[n].fingerIndex),
                          RatioOf(landmarks, call.value.targets[n].fingerIndex))
            /\ HalfMetTiers(call.value.targets[n],
                            ExtensionOf(landmarks, call.value.targets[n].fingerIndex),
                            RatioOf(landmarks, call.value.targets[n].fingerIndex))

(* on a hand with a frame, a target finger raised by more than 0.15 of the *)
(* hand length whose tip is no more than 1.3 times as far from the wrist   *)
(* as its base: not GREEN                                                  *)
C23_Witness ==
    /\ IsolationResult
    /\ ValidLandmarks(landmarks)
    /\ ~Degenerate(landmarks)
    /\ \E n \in 1..Len(call.value.targets) :
          /\ GT(ExtensionOf(landmarks, call.value.targets[n].fingerIndex), 15)
          /\ ~GT(RatioOf(landmarks, call.value.targets[n].fingerIndex), 130)
          /\ call.value.targets[n].zone # "GREEN"

(***************************************************************************)
(* C24.  The thumb and the boundaries of evaluateIsolation.                *)
(***************************************************************************)

(* the targets that are not the thumb *)
NonThumbTargets(targetFingers) == SelectSeq(targetFingers, LAMBDA f : f # 0)

(* the non-target results of v are classified against the boundaries b *)
ClassifiedAgainst(v, lm, b) ==
    \A n \in 1..Len(v.nonTargets) :
        NonTargetClass(
            v.nonTargets[n],
            isAboveLine(At(lm, FINGER_NODES[v.nonTargets[n].fingerIndex].tip),
                        b.greenBoundary.start, b.greenBoundary.end),
            isAboveLine(At(lm, FINGER_NODES[v.nonTargets[n].fingerIndex].tip),
                        b.acceptableBoundary.start, b.acceptableBoundary.end))

(* b is the three lines of the middle finger *)
MiddleFingerLines(b, lm) ==
    /\ SpansJoint(b.greenBoundary, At(lm, FINGER_NODES[2].pip),
                  getHandFrame(lm).handWidth)
    /\ SpansJoint(b.acceptableBoundary, At(lm, FINGER_NODES[2].dip),
                  getHandFrame(lm).handWidth)
    /\ SpansJoint(b.lowBoundary, At(lm, FINGER_NODES[2].mcp),
                  getHandFrame(lm).handWidth)

(* C24: evaluateIsolation removes the thumb from the target set before the *)
(* boundaries are built, for every target set: with the thumb among        *)
(* several targets the boundaries are those of the targets that are not    *)
(* the thumb, and when no such target remains (targetFingers empty or [0]) *)
(* they are the three lines of the middle finger.                          *)
C24_ThumbLeftOut ==
    IsolationResult =>
        /\ isolationBoundaries(landmarks, targetFingersOf(exercise))
               = createBoundariesForTargets(
                     NonThumbTargets(targetFingersOf(exercise)), landmarks,
                     getHandFrame(landmarks))
        /\ ClassifiedAgainst(
               call.value, landmarks,
               createBoundariesForTargets(
                   NonThumbTargets(targetFingersOf(exercise)), landmarks,
                   getHandFrame(landmarks)))
        /\ NonThumbTargets(targetFingersOf(exercise)) = << >>
               => MiddleFingerLines(
                      isolationBoundaries(landmarks, targetFingersOf(exercise)),
                      landmarks)

(* the thumb the only target: the index fingertip is above the GREEN line  *)
(* of the thumb and not above the one of the middle finger, and is no      *)
(* violation                                                               *)
C24_Witness ==
    /\ IsolationResult
    /\ targetFingersOf(exercise) = <<0>>
    /\ ValidLandmarks(landmarks)
    /\ call.value.nonTargets[1].fingerIndex = 1
    /\ ~call.value.nonTargets[1].violation
    /\ ~isAboveLine(At(landmarks, 8),
                    createBoundaryForFinger(2, landmarks, getHandFrame(landmarks))
                        .greenBoundary.start,
                    createBoundaryForFinger(2, landmarks, getHandFrame(landmarks))
                        .greenBoundary.end)
    /\ isAboveLine(At(landmarks, 8),
                   createBoundaryForFinger(0, landmarks, getHandFrame(landmarks))
                       .greenBoundary.start,
                   createBoundaryForFinger(0, landmarks, getHandFrame(landmarks))
                       .greenBoundary.end)

(***************************************************************************)
(* C25.  The boundaries of two or more targets.                            *)
(***************************************************************************)

LowestTarget(targetFingers) ==
    CHOOSE f \in Range(targetFingers) : \A g \in Range(targetFingers) : f <= g

HighestTarget(targetFingers) ==
    CHOOSE f \in Range(targetFingers) : \A g \in Range(targetFingers) : g <= f

(* line is the segment from the landmark from to the landmark to *)
Joins(line, from, to) ==
    /\ line.start = LandmarkPoint(from)
    /\ line.end = LandmarkPoint(to)

(* b is the three segments between the joints of the fingers l and h *)
SegmentsBetween(b, lm, l, h) ==
    /\ Joins(b.greenBoundary, At(lm, FINGER_NODES[l].pip),
             At(lm, FINGER_NODES[h].pip))
    /\ Joins(b.acceptableBoundary, At(lm, FINGER_NODES[l].dip),
             At(lm, FINGER_NODES[h].dip))
    /\ Joins(b.lowBoundary, At(lm, FINGER_NODES[l].mcp),
             At(lm, FINGER_NODES[h].mcp))

AllMajor(violations) ==
    \A n \in 1..Len(violations) : violations[n].severity = "major"

(* the overall score s is the mean m, or half of it when halved *)
MeanOrHalf(s, m, halved) == s = (IF halved THEN FMul(m, Lit(50)) ELSE m)

(* C26: every entry evaluateIsolation puts in violations has severity      *)
(* "major", so violations is non-empty exactly when a major violation      *)
(* exists; the 0.85 multiplier is never applied and overallScore is the    *)
(* plain mean of the target scores or that mean times 0.5.                 *)
C26_OnlyMajorViolations ==
    IsolationResult =>
        /\ AllMajor(call.value.violations)
        /\ (Len(call.value.violations) > 0) <=> ~NoMajorViolation(call.value)
        /\ MeanOrHalf(call.value.overallScore, MeanTargetScore(call.value),
                      Len(call.value.violations) > 0)

(* two non-target fingers above the GREEN line and one between the lines:  *)
(* two violations, both major, and the mean halved                         *)
C26_Witness ==
    /\ IsolationResult
    /\ Len(call.value.violations) = 2
    /\ AllMajor(call.value.violations)
    /\ \E n \in 1..Len(call.value.nonTargets) :
          call.value.nonTargets[n].zone = "YELLOW"
    /\ FGe(MeanTargetScore(call.value), Lit(20))
    /\ call.value.overallScore = FMul(MeanTargetScore(call.value), Lit(50))

(***************************************************************************)
(* C27.  One target that is not bent downward leaves no YELLOW.            *)
(***************************************************************************)

(* the exercise ex has one target that is not the thumb, and on lm its DIP *)
(* joint is not lower on screen than its PIP joint                         *)
SingleUnbentTarget(lm, ex) ==
    /\ Len(NonThumbTargets(targetFingersOf(ex))) = 1
    /\ HasXY(At(lm, FINGER_NODES[NonThumbTargets(targetFingersOf(ex))[1]].dip))
    /\ HasXY(At(lm, FINGER_NODES[NonThumbTargets(targetFingersOf(ex))[1]].pip))
    /\ At(lm, FINGER_NODES[NonThumbTargets(targetFingersOf(ex))[1]].dip).y
           <= At(lm, FINGER_NODES[NonThumbTargets(targetFingersOf(ex))[1]].pip).y

(* the non-target result r is RED with a major violation or GREEN / 1.0 *)
RedOrGreen(r) ==
    \/ r.zone = "RED" /\ r.violation /\ r.severity = "major"
    \/ r.zone = "GREEN" /\ r.score = Lit(100) /\ ~r.violation

(* C27: with a single non-thumb target whose DIP joint is not lower on     *)
(* screen than its PIP joint (DIP.y <= PIP.y), no non-target finger is     *)
(* YELLOW: every fingertip above the ACCEPTABLE line is above the GREEN    *)
(* line, and each non-target result is RED with a major violation or       *)
(* GREEN / 1.0.                                                            *)
C27_NoYellowNonTarget ==
    (IsolationResult /\ SingleUnbentTarget(landmarks, exercise))
        => \A n \in 1..Len(call.value.nonTargets) :
              /\ call.value.nonTargets[n].zone # "YELLOW"
              /\ RedOrGreen(call.value.nonTargets[n])
              /\ AboveAcceptable(landmarks, exercise,
                                 call.value.nonTargets[n].fingerIndex)
                     => AboveGreen(landmarks, exercise,
                                   call.value.nonTargets[n].fingerIndex)

(* the raised index finger the target: a fingertip above the GREEN line    *)
(* and not above the ACCEPTABLE line is RED, one below both is GREEN       *)
C27_Witness ==
    /\ IsolationResult
    /\ SingleUnbentTarget(landmarks, exercise)
    /\ ValidLandmarks(landmarks)
    /\ \E n \in 1..Len(call.value.nonTargets) :
          /\ AboveGreen(landmarks, exercise,
                        call.value.nonTargets[n].fingerIndex)
          /\ ~AboveAcceptable(landmarks, exercise,
                              call.value.nonTargets[n].fingerIndex)
          /\ call.value.nonTargets[n].zone = "RED"
    /\ \E n \in 1..Len(call.value.nonTargets) :
          call.value.nonTargets[n].zone = "GREEN"

(***************************************************************************)
(* C28.  A passed isolation is GREEN or BLUE and has no violation.         *)
(***************************************************************************)

(* C28: in every result of evaluateIsolation, passed = true implies that   *)
(* overallZone is GREEN or BLUE and that violations is empty; the verdict  *)
(* is never a pass while the zone is YELLOW or RED.                        *)
C28_PassedZones ==
    (IsolationResult /\ call.value.passed)
        => /\ call.value.overallZone \in {"GREEN", "BLUE"}
           /\ call.value.violations = << >>

(* passed with the zone BLUE: a mean between 0.65 and 0.85, no violation *)
C28_Witness ==
    /\ IsolationResult
    /\ call.value.passed
    /\ call.value.overallZone = "BLUE"
    /\ call.value.violations = << >>
    /\ FGe(call.value.overallScore, Lit(65))
    /\ ~FGe(call.value.overallScore, Lit(85))

(***************************************************************************)
(* C29.  Isolation without targets.                                        *)
(***************************************************************************)

(* an isolation exercise was evaluated whose target set is empty, given    *)
(* empty or left out of the descriptor                                     *)
NoTargetIsolation ==
    /\ call.op \in {"evaluate", "evaluateIsolation"}
    /\ exercise.type = "isolation"
    /\ targetFingersOf(exercise) = << >>

(* C29: an isolation exercise with an empty target set, evaluate called    *)
(* with a descriptor that omits targetFingers included, returns the        *)
(* overall score 0, the overall zone RED and passed false, whatever the    *)
(* positions of the fingers: for valid landmarks the call returns, and     *)
(* every call that returns has these values.                               *)
C29_NoTargets ==
    NoTargetIsolation =>
        /\ ValidLandmarks(landmarks) => IsolationResult
        /\ ~call.threw
               => /\ AggregateScore(call.value) = Lit(0)
                  /\ AggregateZone(call.value) = "RED"
                  /\ ~call.value.passed
        /\ IsolationResult
               => /\ call.value.targets = << >>
                  /\ ~call.value.thumb.isTarget

(* the open hand and a descriptor without targetFingers: the thumb and the *)
(* four fingers are judged as non-targets, and the result is 0, RED, not   *)
(* passed                                                                  *)
C29_Witness ==
    /\ call.op = "evaluate"
    /\ exercise = [type |-> "isolation"]
    /\ landmarks = OpenHand
    /\ IsolationResult
    /\ Len(call.value.nonTargets) = 4
    /\ call.value.overallScore = Lit(0)
    /\ call.value.overallZone = "RED"
    /\ ~call.value.passed

(***************************************************************************)
(* C30.  evaluateIsolation and the order and repetition of the targets.    *)
(***************************************************************************)

(* seq without the repetitions of its elements *)
RECURSIVE Distinct(_)
Distinct(seq) ==
    IF seq = << >> THEN << >>
    ELSE IF Includes(Tail(seq), Head(seq)) THEN Distinct(Tail(seq))
    ELSE <<Head(seq)>> \o Distinct(Tail(seq))

(* the list of the set of targetFingers: ascending, each finger once *)
AsSet(targetFingers) == SortSeq(Distinct(targetFingers), LAMBDA a, b : a < b)

(* evaluateIsolation was called *)
IsolationCall ==
    /\ call.op = "evaluateIsolation"
    /\ exercise.type = "isolation"

(* C30: evaluateIsolation depends on the set of the target fingers and not *)
(* on the list: for all landmarks, a reordering of targetFingers or the    *)
(* repetition of an element gives the same overallScore, overallZone,      *)
(* passed, violations and per-finger zones and scores.  The call is        *)
(* compared with the call on the ascending list without repetitions.       *)
C30_ListIndependent ==
    IsolationCall =>
        /\ call.threw
               = callIsolation(landmarks, AsSet(exercise.targetFingers)).threw
        /\ call.value
               = callIsolation(landmarks, AsSet(exercise.targetFingers)).value

(* the open hand whose index base has no coordinates, so that handWidth is *)
(* NaN: with the targets [1, 1] the fingers raised beside the index finger *)
(* are violations and with [1] there is none                               *)
C30_RepeatedTarget ==
    /\ IsolationCall
    /\ landmarks = [OpenHand EXCEPT !.pts[5] = EmptyObj]
    /\ exercise.targetFingers = <<1, 1>>
    /\ ~call.threw
    /\ Len(call.value.violations) > 0
    /\ ~callIsolation(landmarks, <<1>>).threw
    /\ callIsolation(landmarks, <<1>>).value.violations = << >>
    /\ call.value.overallScore # callIsolation(landmarks, <<1>>).value.overallScore

====
